--------------------------- MODULE ExecuteProofs ---------------------------
(***************************************************************************)
(* Proofs about Execute, for every queue's requirements, every set of      *)
(* result lines, any pipe size and with or without broken streams.         *)
(***************************************************************************)
EXTENDS Execute, TLAPS

InPipe(kind) == \E i \in 1..Len(pipe) : pipe[i].t = kind

\* execute goes on once the reader is through, the reader is through once the
\* process is gone and the pipe empty, and Wait returns once it is reaped.
OrderInv ==
  /\ main # "drain" => reader # "scan"
  /\ reader = "done" => pipe = <<>> /\ ~Alive
  /\ main \in {"stderr", "exited", "looked", "done"} =>
       proc = "reaped" /\ (~exitErr => clean) /\ (exitErr => ~clean \/ ctx)

\* A line in the pipe is one the process is on record for.
PipeInv == \A i \in 1..Len(pipe) :
  /\ pipe[i].t = "init" => pipe[i] \in told.init
  /\ pipe[i].t = "limit" => told.limit
  /\ pipe[i].t = "result" => pipe[i] = told.result

\* What the Collector holds the process said, and what it said is held or on its
\* way there as long as the stream is read.
CollectorInv ==
  /\ coll.result \in {NoResult, told.result}
  /\ coll.limited => told.limit
  /\ reader # "failed" =>
       /\ acted => coll.tools \/ InPipe("tool")
       /\ told.result # NoResult => coll.result = told.result \/ InPipe("result")

\* The init line is the first, and the first line read is checked.
CapsInv ==
  /\ \A line \in told.init : told.init = {line}
  /\ told.init = {} => caps = "unchecked"
  /\ told.init = {} /\ ~acted /\ ~told.limit /\ told.result = NoResult => pipe = <<>>
  /\ \A line \in told.init :
       \/ caps = CheckCapabilities(line)
       \/ /\ caps = "unchecked" /\ coll.result = NoResult
          /\ reader # "failed" => pipe # <<>> /\ pipe[1] = line

\* The operator's stop cancels the context, and only it is ever found.
CancelInv == (current.cancelled => ctx) /\ (current.read => current.cancelled)

\* The verdict is the classification of what was gathered.  The watchdog's timer
\* may still fire afterwards.
VerdictInv ==
  main = "done" =>
    /\ ~timedOut => verdict = Classify
    /\ verdict.st \in {"succeeded", "needs_input"} =>
         /\ coll.result # NoResult /\ coll.result.outcome = verdict.st
         /\ ~coll.result.error /\ ~coll.result.maxTurns
         /\ ~exitErr /\ ~current.read /\ caps \notin {"missing", "pending"}

RunInv == TypeOK /\ OrderInv /\ PipeInv /\ CollectorInv /\ CapsInv /\ CancelInv /\ VerdictInv

-----------------------------------------------------------------------------
(* Sequences and lines *)

\* What a write to the pipe leaves in it.
LEMMA AppendFacts ==
  ASSUME NEW S, NEW s \in Seq(S), NEW e \in S
  PROVE  /\ Append(s, e) \in Seq(S) /\ Len(Append(s, e)) = Len(s) + 1
         /\ \A i \in 1..Len(s) : Append(s, e)[i] = s[i]
         /\ Append(s, e)[Len(s) + 1] = e
         /\ Len(s) \in Nat /\ Append(s, e) # <<>>
OBVIOUS

\* What a read takes from the pipe and leaves in it.
LEMMA TailFacts ==
  ASSUME NEW S, NEW s \in Seq(S), s # <<>>
  PROVE  /\ Head(s) \in S /\ Head(s) = s[1] /\ Len(s) \in Nat /\ Len(s) >= 1
         /\ Tail(s) \in Seq(S) /\ Len(Tail(s)) = Len(s) - 1
         /\ \A i \in 1..Len(Tail(s)) : Tail(s)[i] = s[i + 1] /\ i + 1 \in 1..Len(s)
OBVIOUS

\* A line's kind says which set it is from.
LEMMA LineKinds ==
  ASSUME NEW line \in Line
  PROVE  /\ line.t \in {"init", "tool", "limit", "result"}
         /\ line.t = "init" <=> line \in InitLine
         /\ line.t = "result" <=> line \in Results
<1>1. ASSUME line \in InitLine PROVE line.t = "init"
  BY <1>1 DEF InitLine
<1>2. ASSUME line \in Results PROVE line.t = "result"
  BY <1>2, ExecuteAssumption DEF ResultLine
<1>3. Tool.t = "tool" /\ Limit.t = "limit"
  BY DEF Tool, Limit
<1> QED BY <1>1, <1>2, <1>3 DEF Line

\* The lines the process prints are lines.
LEMMA LinesAre ==
  /\ Tool \in Line /\ Limit \in Line /\ Tool.t = "tool" /\ Limit.t = "limit"
  /\ \A line \in InitLine : line \in Line
  /\ \A line \in Results : line \in Line
BY DEF Line, Tool, Limit

\* A result line is none of NoResult's kind.
LEMMA NoResultIsNone ==
  /\ NoResult \notin Results /\ NoResult.outcome = "none" /\ NoResult.text = "plain"
  /\ \A r \in Results : r.t = "result" /\ r # NoResult
<1>1. NoResult.t = "none" /\ NoResult.outcome = "none" /\ NoResult.text = "plain"
  BY DEF NoResult
<1>2. \A r \in Results : r.t = "result"
  BY ExecuteAssumption DEF ResultLine
<1> QED BY <1>1, <1>2

\* The Collector's records.
CollState == [result : Results \union {NoResult}, tools : BOOLEAN, limited : BOOLEAN]
ToldState == [init : SUBSET InitLine, result : Results \union {NoResult}, limit : BOOLEAN]

\* Observe, case by case.
LEMMA ObserveCases ==
  ASSUME NEW c \in CollState, NEW line \in Line
  PROVE  /\ Observe(c, line) \in CollState
         /\ line.t = "tool" => Observe(c, line) = [c EXCEPT !.tools = TRUE]
         /\ line.t = "limit" => Observe(c, line) = [c EXCEPT !.limited = TRUE]
         /\ line.t = "result" => Observe(c, line) = [c EXCEPT !.result = line]
         /\ line.t = "init" => Observe(c, line) = c
<1>1. CASE line.t = "tool"
  <2>1. Observe(c, line) = [c EXCEPT !.tools = TRUE]
    BY <1>1 DEF Observe
  <2> QED BY <1>1, <2>1 DEF CollState
<1>2. CASE line.t = "limit"
  <2>1. Observe(c, line) = [c EXCEPT !.limited = TRUE]
    BY <1>2 DEF Observe
  <2> QED BY <1>2, <2>1 DEF CollState
<1>3. CASE line.t = "result"
  <2>1. Observe(c, line) = [c EXCEPT !.result = line]
    BY <1>3 DEF Observe
  <2> QED BY <1>3, <2>1, LineKinds DEF CollState
<1>4. CASE line.t = "init"
  <2>1. Observe(c, line) = c
    BY <1>4 DEF Observe
  <2> QED BY <1>4, <2>1
<1> QED BY <1>1, <1>2, <1>3, <1>4, LineKinds

\* What the Collector keeps and learns from a line.
LEMMA ObserveFacts ==
  ASSUME NEW c \in CollState, NEW line \in Line
  PROVE  LET d == Observe(c, line)
         IN /\ d \in CollState
            /\ d.tools <=> (c.tools \/ line.t = "tool")
            /\ d.limited <=> (c.limited \/ line.t = "limit")
            /\ d.result = IF line.t = "result" THEN line ELSE c.result
<1>0. c = [result |-> c.result, tools |-> c.tools, limited |-> c.limited]
  BY DEF CollState
<1>1. CASE line.t = "tool"
  <2>1. Observe(c, line) = [result |-> c.result, tools |-> TRUE, limited |-> c.limited]
    BY <1>0, <1>1, ObserveCases
  <2>2. Observe(c, line).tools = TRUE /\ Observe(c, line).limited = c.limited
        /\ Observe(c, line).result = c.result
    BY <2>1
  <2> QED BY <1>1, <2>2, ObserveCases
<1>2. CASE line.t = "limit"
  <2>1. Observe(c, line) = [result |-> c.result, tools |-> c.tools, limited |-> TRUE]
    BY <1>0, <1>2, ObserveCases
  <2>2. Observe(c, line).tools = c.tools /\ Observe(c, line).limited = TRUE
        /\ Observe(c, line).result = c.result
    BY <2>1
  <2> QED BY <1>2, <2>2, ObserveCases
<1>3. CASE line.t = "result"
  <2>1. Observe(c, line) = [result |-> line, tools |-> c.tools, limited |-> c.limited]
    BY <1>0, <1>3, ObserveCases
  <2> QED BY <1>3, <2>1, ObserveCases
<1>4. CASE line.t = "init"
  BY <1>4, ObserveCases
<1> QED BY <1>1, <1>2, <1>3, <1>4, LineKinds

\* An init line passes the check exactly when it meets the requirements.
LEMMA CapabilitiesMet ==
  ASSUME NEW line \in InitLine
  PROVE  /\ CheckCapabilities(line) \in {"ok", "missing", "pending"}
         /\ CheckCapabilities(line) = "ok" <=> Meets(line)
<1> DEFINE Missing == \/ Skills \ line.skills # {}
                      \/ \E c \in Connectors : line.servers[c] \in {"absent", "failed", "toolless"}
           Pending == \E c \in Connectors : line.servers[c] = "pending"
<1>1. Meets(line) <=> ~Missing /\ ~Pending
  <2>1. \A c \in Connectors :
          line.servers[c] \in {"absent", "pending", "failed", "toolless", "connected"}
    BY ExecuteAssumption DEF InitLine
  <2> QED BY <2>1 DEF Meets
<1>2. CASE Missing
  BY <1>1, <1>2 DEF CheckCapabilities
<1>3. CASE ~Missing /\ Pending
  BY <1>1, <1>3 DEF CheckCapabilities
<1>4. CASE ~Missing /\ ~Pending
  BY <1>1, <1>4 DEF CheckCapabilities
<1> QED BY <1>2, <1>3, <1>4

-----------------------------------------------------------------------------
(* Types *)

\* A signal keeps the types, ends nothing but a process in being, and does
\* nothing at all once claude is reaped.
LEMMA SignalFacts ==
  ASSUME TypeOK, NEW sig, Signal(sig)
  PROVE  /\ proc' \in {"running", "zombie", "reaped"} /\ clean' = clean
         /\ stderr' \in Texts /\ helper' \subseteq {"stdout", "stderr"}
         /\ proc = "reaped" => proc' = "reaped"
         /\ proc # "running" => proc' # "running" /\ stderr' = stderr
<1> USE DEF TypeOK, Alive
<1>1. CASE sig = "KILL" /\ proc # "reaped"
  BY <1>1 DEF Signal
<1>2. CASE ~(sig = "KILL" /\ proc # "reaped")
  BY <1>2 DEF Signal
<1> QED BY <1>1, <1>2

\* A write to the pipe keeps it within its size.
LEMMA PrintsType ==
  ASSUME TypeOK, NEW line \in Line, Prints(line)
  PROVE  pipe' \in Seq(Line) /\ Len(pipe') <= PipeSize
<1>1. pipe \in Seq(Line) /\ Len(pipe) \in Nat /\ PipeSize \in Nat
  BY ExecuteAssumption DEF TypeOK
<1> QED BY <1>1, AppendFacts, ExecuteAssumption DEF Prints

\* Every step keeps every variable's type.
LEMMA TypeStep ==
  ASSUME TypeOK, [Next]_vars
  PROVE  TypeOK'
<1> USE DEF TypeOK, vars, procVars, readVars, mainVars, opVars
<1>0. told \in ToldState /\ coll \in CollState
  BY DEF ToldState, CollState
<1>1. CASE PrintInit
  <2>1. PICK line \in InitLine : Prints(line) /\ told' = [told EXCEPT !.init = {line}]
    BY <1>1 DEF PrintInit
  <2>2. told' \in ToldState
    BY <1>0, <2>1 DEF ToldState
  <2>3. pipe' \in Seq(Line) /\ Len(pipe') <= PipeSize
    BY <2>1, LinesAre, PrintsType
  <2> QED BY <1>1, <2>2, <2>3 DEF PrintInit, ToldState
<1>2. CASE ToolCall
  <2>1. pipe' \in Seq(Line) /\ Len(pipe') <= PipeSize
    BY <1>2, LinesAre, PrintsType DEF ToolCall
  <2>2. helper' \subseteq {"stdout", "stderr"} /\ acted' \in BOOLEAN
    BY <1>2, ExecuteAssumption DEF ToolCall
  <2> QED BY <1>2, <2>1, <2>2 DEF ToolCall
<1>3. CASE NoteLimit
  <2>1. pipe' \in Seq(Line) /\ Len(pipe') <= PipeSize
    BY <1>3, LinesAre, PrintsType DEF NoteLimit
  <2>2. told' \in ToldState
    BY <1>0, <1>3 DEF NoteLimit, ToldState
  <2>3. UNCHANGED <<proc, clean, stderr, helper, acted, readVars, dog, timedOut, mainVars, opVars>>
    BY <1>3 DEF NoteLimit
  <2> QED BY <2>1, <2>2, <2>3 DEF ToldState
<1>4. CASE PrintResult
  <2>1. PICK line \in Results : Prints(line) /\ told' = [told EXCEPT !.result = line]
    BY <1>4 DEF PrintResult
  <2>2. told' \in ToldState
    BY <1>0, <2>1 DEF ToldState
  <2>3. pipe' \in Seq(Line) /\ Len(pipe') <= PipeSize
    BY <2>1, LinesAre, PrintsType
  <2> QED BY <1>4, <2>2, <2>3 DEF PrintResult, ToldState
<1>5. CASE Exit
  BY <1>5 DEF Exit
<1>6. CASE HelperExits
  BY <1>6 DEF HelperExits
<1>7. CASE Scan
  <2>1. pipe' \in Seq(Line) /\ Len(pipe') <= PipeSize /\ Head(pipe) \in Line
    BY <1>7, TailFacts, ExecuteAssumption DEF Scan
  <2>2. coll' \in CollState
    BY <1>0, <1>7, <2>1, ObserveCases DEF Scan
  <2>3. caps' \in {"unchecked", "ok", "missing", "pending"}
    BY <1>7, <2>1, LineKinds, CapabilitiesMet DEF Scan
  <2> QED BY <1>7, <2>1, <2>2, <2>3 DEF Scan, CollState
<1>8. CASE StreamEnds
  BY <1>8 DEF StreamEnds
<1>9. CASE StreamFails
  BY <1>9 DEF StreamFails
<1>10. CASE Bark
  <2>1. timedOut' \in BOOLEAN /\ Signal("INT")
    BY <1>10 DEF Bark
  <2> QED BY <1>10, <2>1, SignalFacts DEF Bark
<1>11. CASE Escalate
  <2>1. PICK sig \in {"TERM", "KILL"} : Signal(sig)
    BY <1>11 DEF Escalate
  <2> QED BY <1>11, <2>1, SignalFacts DEF Escalate
<1>12. CASE Heel
  BY <1>12 DEF Heel
<1>13. CASE Drain
  BY <1>13 DEF Drain
<1>14. CASE Reap
  <2>1. pipe' \in Seq(Line) /\ Len(pipe') <= PipeSize
    BY <1>14, ExecuteAssumption DEF Reap
  <2>2. exitErr' \in BOOLEAN
    BY <1>14 DEF Reap
  <2> QED BY <1>14, <2>1, <2>2 DEF Reap
<1>15. CASE WaitReturns
  BY <1>15 DEF WaitReturns
<1>16. CASE ReadCancelled
  BY <1>16 DEF ReadCancelled
<1>17. CASE ReadTimedOut
  <2>1. Classify \in [st : {"succeeded", "needs_input", "failed", "cancelled"}, kind : Kinds]
    <3>1. coll.result \in Results => coll.result.outcome \in Outcomes
      BY ExecuteAssumption DEF ResultLine
    <3>2. NoResult.outcome = "none"
      BY DEF NoResult
    <3>3. coll.result.outcome \in Outcomes
      BY <3>1, <3>2 DEF Outcomes
    <3> QED BY <3>3 DEF Classify, Pass, Fail, Kinds, Outcomes
  <2> QED BY <1>17, <2>1 DEF ReadTimedOut
<1>18. CASE Cancel
  <2>1. current' \in [cancelled : BOOLEAN, read : BOOLEAN]
    BY <1>18 DEF Cancel
  <2>2. ctx' \in BOOLEAN /\ UNCHANGED <<procVars, pipe, readVars, dog, timedOut, mainVars>>
    BY <1>18 DEF Cancel
  <2> QED BY <2>1, <2>2
<1>19. CASE Shutdown
  BY <1>19 DEF Shutdown
<1>20. CASE UNCHANGED vars
  BY <1>20
<1> QED
  BY <1>1, <1>2, <1>3, <1>4, <1>5, <1>6, <1>7, <1>8, <1>9, <1>10, <1>11, <1>12, <1>13, <1>14,
     <1>15, <1>16, <1>17, <1>18, <1>19, <1>20
     DEF Next, Claude, Reader, Dog, Main

-----------------------------------------------------------------------------
(* The invariant *)

\* A step that writes no line and reads none keeps what relates the Collector to
\* the process, unless it empties the pipe under a reader that is still good.
LEMMA QuietFrame ==
  ASSUME PipeInv, CollectorInv, CapsInv, UNCHANGED <<coll, caps, told, acted>>,
         pipe' \in {pipe, <<>>},
         reader' # "failed" => reader # "failed" /\ pipe' = pipe
  PROVE  PipeInv' /\ CollectorInv' /\ CapsInv'
<1>0. Len(<<>>) = 0
  OBVIOUS
<1>1. PipeInv'
  <2>1. CASE pipe' = pipe
    BY <2>1 DEF PipeInv
  <2>2. CASE pipe' = <<>>
    BY <1>0, <2>2 DEF PipeInv
  <2> QED BY <2>1, <2>2
<1>2. CollectorInv'
  BY DEF CollectorInv, InPipe
<1>3. CapsInv'
  BY DEF CapsInv, CheckCapabilities
<1> QED BY <1>1, <1>2, <1>3

\* The verdict survives a step that changes nothing it was made of; the timer may
\* fire.
LEMMA VerdictFrame ==
  ASSUME TypeOK, VerdictInv,
         main' = "done" => /\ main = "done" /\ (timedOut => timedOut')
                           /\ UNCHANGED <<verdict, coll, caps, exitErr, stderr, current>>
  PROVE  VerdictInv'
<1> SUFFICES ASSUME main' = "done" PROVE VerdictInv'
  BY DEF VerdictInv
<1>1. main = "done" /\ UNCHANGED <<verdict, coll, caps, exitErr, stderr, current>>
  OBVIOUS
<1>2. ASSUME ~timedOut' PROVE verdict' = Classify'
  <2>1. ~timedOut /\ verdict = Classify
    BY <1>1, <1>2 DEF VerdictInv
  <2>2. Classify' = Classify
    BY <1>1, <1>2, <2>1 DEF Classify, Says
  <2> QED BY <1>1, <2>1, <2>2
<1> QED BY <1>1, <1>2 DEF VerdictInv

\* A line the process prints, with its own record of it.
Written(e) ==
  /\ Alive /\ told.result = NoResult /\ pipe' = Append(pipe, e)
  /\ IF e.t = "init" THEN told.init = {} /\ ~acted /\ ~told.limit /\ told'.init = {e}
                     ELSE told'.init = told.init
  /\ told'.limit <=> (told.limit \/ e.t = "limit")
  /\ told'.result = IF e.t = "result" THEN e ELSE NoResult
  /\ acted' <=> (acted \/ e.t = "tool")
  /\ UNCHANGED <<proc, clean, readVars, mainVars, opVars>>

\* Printing a line keeps the invariant.
LEMMA WriteInv ==
  ASSUME RunInv, NEW e \in Line, Written(e)
  PROVE  (OrderInv /\ PipeInv /\ CollectorInv /\ CapsInv /\ CancelInv /\ VerdictInv)'
<1>1. /\ pipe \in Seq(Line) /\ Len(pipe) \in Nat /\ Len(pipe') = Len(pipe) + 1
      /\ \A i \in 1..Len(pipe) : pipe'[i] = pipe[i]
      /\ pipe'[Len(pipe) + 1] = e /\ pipe' # <<>>
  BY AppendFacts DEF Written, RunInv, TypeOK
<1>2. \A i \in 1..Len(pipe') : (i \in 1..Len(pipe) /\ pipe'[i] = pipe[i]) \/ pipe'[i] = e
  BY <1>1
<1>3. main \in {"drain", "wait"} /\ reader # "done" /\ coll.result = NoResult
  BY DEF Written, RunInv, OrderInv, TypeOK, Alive, CollectorInv
<1>4. UNCHANGED <<proc, clean, reader, coll, caps, main, exitErr, verdict, ctx, current>>
  BY DEF Written, readVars, mainVars, opVars
<1>5. OrderInv' /\ CancelInv' /\ VerdictInv'
  BY <1>3, <1>4 DEF RunInv, OrderInv, CancelInv, VerdictInv, Alive
<1>6. e.t \in {"init", "tool", "limit", "result"} /\ NoResult.t = "none"
  BY LineKinds DEF NoResult
<1>7. PipeInv'
  <2> SUFFICES ASSUME NEW i \in 1..Len(pipe')
               PROVE  /\ pipe'[i].t = "init" => pipe'[i] \in told'.init
                      /\ pipe'[i].t = "limit" => told'.limit
                      /\ pipe'[i].t = "result" => pipe'[i] = told'.result
    BY DEF PipeInv
  <2>1. CASE pipe'[i] = e
    BY <2>1 DEF Written
  <2>2. CASE i \in 1..Len(pipe) /\ pipe'[i] = pipe[i]
    <3>1. /\ pipe[i].t = "init" => pipe[i] \in told.init
          /\ pipe[i].t = "limit" => told.limit
          /\ pipe[i].t # "result"
      BY <1>6, <2>2 DEF RunInv, PipeInv, Written
    <3> QED BY <2>2, <3>1 DEF Written
  <2> QED BY <1>2, <2>1, <2>2
<1>8. CollectorInv'
  <2>1. ASSUME NEW k, InPipe(k) \/ e.t = k PROVE InPipe(k)'
    BY <1>1, <2>1 DEF InPipe
  <2>2. coll'.limited => told'.limit
    BY <1>4 DEF RunInv, CollectorInv, Written
  <2>3. ASSUME reader' # "failed", acted' PROVE coll'.tools \/ InPipe("tool")'
    BY <1>4, <2>1, <2>3 DEF RunInv, CollectorInv, Written
  <2>4. ASSUME told'.result # NoResult PROVE InPipe("result")'
    BY <2>1, <2>4 DEF Written
  <2> QED BY <1>3, <1>4, <2>2, <2>3, <2>4 DEF CollectorInv
<1>9. CapsInv'
  <2>1. CASE e.t = "init"
    <3>1. told.init = {} /\ told'.init = {e} /\ caps' = "unchecked" /\ pipe = <<>>
      BY <1>4, <2>1 DEF Written, RunInv, CapsInv
    <3>2. pipe'[1] = e
      BY <1>1, <3>1
    <3> QED BY <1>1, <1>3, <1>4, <3>1, <3>2 DEF CapsInv
  <2>2. CASE e.t # "init"
    <3>1. told'.init = told.init
      BY <2>2 DEF Written
    <3>2. acted' \/ told'.limit \/ told'.result # NoResult
      BY <1>6, <2>2 DEF Written
    <3>3. pipe # <<>> => pipe'[1] = pipe[1]
      BY <1>1
    <3> QED BY <1>1, <1>3, <1>4, <3>1, <3>2, <3>3 DEF RunInv, CapsInv, CheckCapabilities
  <2> QED BY <2>1, <2>2
<1> QED BY <1>5, <1>7, <1>8, <1>9

\* Reading a line keeps it.
LEMMA ScanInv ==
  ASSUME RunInv, Scan
  PROVE  (OrderInv /\ PipeInv /\ CollectorInv /\ CapsInv /\ CancelInv /\ VerdictInv)'
<1> DEFINE e == Head(pipe)
<1>1. /\ e \in Line /\ e = pipe[1] /\ Len(pipe) \in Nat /\ Len(pipe) >= 1
      /\ Len(pipe') = Len(pipe) - 1
      /\ \A i \in 1..Len(pipe') : pipe'[i] = pipe[i + 1] /\ i + 1 \in 1..Len(pipe)
  BY TailFacts DEF Scan, RunInv, TypeOK
<1>2. reader = "scan" /\ main = "drain"
      /\ UNCHANGED <<procVars, reader, dog, timedOut, mainVars, opVars>>
  BY DEF Scan, RunInv, OrderInv
<1>3. UNCHANGED <<proc, clean, acted, told, main, exitErr, verdict, ctx, current>>
  BY <1>2 DEF procVars, mainVars, opVars
<1>4. OrderInv' /\ CancelInv' /\ VerdictInv'
  BY <1>2, <1>3 DEF RunInv, OrderInv, CancelInv, VerdictInv
<1>5. coll \in CollState
  BY DEF RunInv, TypeOK, CollState
<1>6. /\ coll'.tools <=> (coll.tools \/ e.t = "tool")
      /\ coll'.limited <=> (coll.limited \/ e.t = "limit")
      /\ coll'.result = IF e.t = "result" THEN e ELSE coll.result
  BY <1>1, <1>5, ObserveFacts DEF Scan
<1>7. /\ e.t = "init" => e \in told.init
      /\ e.t = "limit" => told.limit
      /\ e.t = "result" => e = told.result
  BY <1>1 DEF RunInv, PipeInv
<1>8. PipeInv'
  BY <1>1, <1>3 DEF RunInv, PipeInv
<1>9. CollectorInv'
  <2>1. ASSUME NEW k, InPipe(k), e.t # k PROVE InPipe(k)'
    <3>1. PICK i \in 1..Len(pipe) : pipe[i].t = k
      BY <2>1 DEF InPipe
    <3>2. i - 1 \in 1..Len(pipe') /\ i - 1 + 1 = i
      BY <1>1, <2>1, <3>1
    <3>3. pipe'[i - 1].t = k
      BY <1>1, <3>1, <3>2
    <3> QED BY <3>2, <3>3 DEF InPipe
  <2>2. coll'.result \in {NoResult, told'.result} /\ (coll'.limited => told'.limit)
    BY <1>3, <1>6, <1>7 DEF RunInv, CollectorInv
  <2>3. ASSUME acted' PROVE coll'.tools \/ InPipe("tool")'
    BY <1>2, <1>3, <1>6, <2>1, <2>3 DEF RunInv, CollectorInv
  <2>4. ASSUME told'.result # NoResult PROVE coll'.result = told'.result \/ InPipe("result")'
    BY <1>2, <1>3, <1>6, <1>7, <2>1, <2>4 DEF RunInv, CollectorInv
  <2> QED BY <2>2, <2>3, <2>4 DEF CollectorInv
<1>10. CapsInv'
  <2>1. /\ \A line \in told'.init : told'.init = {line}
        /\ told'.init = {} => caps' = "unchecked"
    BY <1>3, <1>7 DEF RunInv, CapsInv, Scan
  <2>2. ~(told'.init = {} /\ ~acted' /\ ~told'.limit /\ told'.result = NoResult)
    BY <1>3 DEF RunInv, CapsInv, Scan
  <2>3. ASSUME NEW line \in told'.init PROVE caps' = CheckCapabilities(line)
    <3>1. CASE caps = CheckCapabilities(line)
      <4>1. caps # "unchecked"
        BY <1>3, <3>1, <2>3, CapabilitiesMet DEF RunInv, TypeOK
      <4> QED BY <3>1, <4>1 DEF Scan
    <3>2. CASE caps = "unchecked" /\ pipe[1] = line
      <4>1. line.t = "init"
        BY <1>3, <2>3 DEF RunInv, TypeOK, InitLine
      <4> QED BY <1>1, <3>2, <4>1 DEF Scan
    <3> QED BY <1>2, <1>3, <2>3, <3>1, <3>2 DEF RunInv, CapsInv
  <2> QED BY <2>1, <2>2, <2>3 DEF CapsInv, CheckCapabilities
<1> QED BY <1>4, <1>8, <1>9, <1>10

\* Classify gives a success only for what the Collector holds of one.
LEMMA ClassifySuccess ==
  ASSUME Classify.st \in {"succeeded", "needs_input"}
  PROVE  /\ coll.result # NoResult /\ coll.result.outcome = Classify.st
         /\ ~coll.result.error /\ ~coll.result.maxTurns
         /\ ~exitErr /\ ~current.read /\ caps \notin {"missing", "pending"}
BY DEF Classify, Pass, Fail

\* The four actions that print are writes.
LEMMA ClaudeWrites ==
  ASSUME TypeOK, PrintInit \/ ToolCall \/ NoteLimit \/ PrintResult
  PROVE  \E e \in Line : Written(e)
<1> USE DEF Prints, procVars, readVars, mainVars, opVars
<1>0. told \in ToldState
  BY DEF TypeOK, ToldState
<1>1. CASE PrintInit
  <2>1. PICK line \in InitLine : Prints(line) /\ told' = [told EXCEPT !.init = {line}]
    BY <1>1 DEF PrintInit
  <2>2. told'.init = {line} /\ told'.limit = told.limit /\ told'.result = told.result
    BY <1>0, <2>1 DEF ToldState
  <2>3. line \in Line /\ line.t = "init"
    BY LinesAre, LineKinds
  <2>4. Written(line)
    BY <1>1, <2>1, <2>2, <2>3 DEF PrintInit, Written
  <2> QED BY <2>3, <2>4
<1>2. CASE ToolCall
  <2>1. Written(Tool)
    BY <1>2, LinesAre DEF ToolCall, Written
  <2> QED BY <2>1, LinesAre
<1>3. CASE NoteLimit
  <2>1. told'.init = told.init /\ told'.limit = TRUE /\ told'.result = told.result
    BY <1>0, <1>3 DEF NoteLimit, ToldState
  <2>2. /\ Alive /\ told.result = NoResult /\ Prints(Limit)
        /\ UNCHANGED <<proc, clean, acted, readVars, mainVars, opVars>>
    BY <1>3 DEF NoteLimit
  <2>3. Written(Limit)
    BY <2>1, <2>2, LinesAre DEF Written
  <2> QED BY <2>3, LinesAre
<1>4. CASE PrintResult
  <2>1. PICK line \in Results : Prints(line) /\ told' = [told EXCEPT !.result = line]
    BY <1>4 DEF PrintResult
  <2>2. told'.init = told.init /\ told'.limit = told.limit /\ told'.result = line
    BY <1>0, <2>1 DEF ToldState
  <2>3. line \in Line /\ line.t = "result"
    BY LinesAre, LineKinds
  <2>4. Written(line)
    BY <1>4, <2>1, <2>2, <2>3 DEF PrintResult, Written
  <2> QED BY <2>3, <2>4
<1> QED BY <1>1, <1>2, <1>3, <1>4

\* Every step keeps the invariant.
LEMMA RunStep ==
  ASSUME RunInv, [Next]_vars
  PROVE  (OrderInv /\ PipeInv /\ CollectorInv /\ CapsInv /\ CancelInv /\ VerdictInv)'
<1> DEFINE Rest == OrderInv /\ PipeInv /\ CollectorInv /\ CapsInv /\ CancelInv /\ VerdictInv
<1>0. TypeOK /\ Rest
  BY DEF RunInv
<1>t. TypeOK'
  BY <1>0, TypeStep
<1>1. CASE PrintInit \/ ToolCall \/ NoteLimit \/ PrintResult
  BY <1>0, <1>1, ClaudeWrites, WriteInv
<1>2. CASE Scan
  BY <1>2, ScanInv
<1> USE DEF procVars, readVars, mainVars, opVars
<1>3. CASE Exit
  <2>1. PipeInv' /\ CollectorInv' /\ CapsInv'
    BY <1>0, <1>3, QuietFrame DEF Exit
  <2>2. OrderInv' /\ CancelInv'
    BY <1>0, <1>3 DEF Exit, OrderInv, CancelInv, Alive
  <2>3. main # "done" /\ main' = main
    BY <1>0, <1>3 DEF Exit, OrderInv, Alive
  <2>4. VerdictInv'
    BY <2>3 DEF VerdictInv
  <2> QED BY <2>1, <2>2, <2>4
<1>4. CASE HelperExits \/ Heel \/ Shutdown \/ UNCHANGED vars
  <2>1. /\ UNCHANGED <<proc, clean, stderr, acted, told, pipe, reader, coll, caps, timedOut,
                      main, exitErr, verdict, current>>
        /\ ctx => ctx'
    BY <1>4 DEF HelperExits, Heel, Shutdown, vars
  <2>2. PipeInv' /\ CollectorInv' /\ CapsInv'
    BY <1>0, <2>1, QuietFrame
  <2>3. OrderInv' /\ CancelInv'
    BY <1>0, <2>1 DEF OrderInv, CancelInv, Alive
  <2>4. VerdictInv'
    BY <1>0, <2>1, VerdictFrame
  <2> QED BY <2>2, <2>3, <2>4
<1>5. CASE StreamEnds \/ StreamFails
  <2>1. /\ UNCHANGED <<proc, clean, stderr, acted, told, pipe, coll, caps, timedOut,
                      main, exitErr, verdict, current, ctx>>
        /\ reader = "scan" /\ reader' # "scan"
        /\ reader' = "done" => pipe = <<>> /\ ~Alive
    BY <1>5 DEF StreamEnds, StreamFails
  <2>2. PipeInv' /\ CollectorInv' /\ CapsInv'
    BY <1>0, <2>1, QuietFrame
  <2>3. OrderInv' /\ CancelInv'
    BY <1>0, <2>1 DEF OrderInv, CancelInv, Alive
  <2>4. VerdictInv'
    BY <1>0, <2>1, VerdictFrame
  <2> QED BY <2>2, <2>3, <2>4
<1>6. CASE Bark \/ Escalate
  <2>1. /\ UNCHANGED <<acted, told, pipe, reader, coll, caps, main, exitErr, verdict, current, ctx>>
        /\ timedOut => timedOut'
    BY <1>6 DEF Bark, Escalate
  <2>2. PICK sig \in {"INT", "TERM", "KILL"} : Signal(sig)
    BY <1>6 DEF Bark, Escalate
  <2>3. /\ clean' = clean /\ (proc = "reaped" => proc' = "reaped")
        /\ proc # "running" => proc' # "running" /\ stderr' = stderr
    BY <1>0, <2>2, SignalFacts
  <2>4. PipeInv' /\ CollectorInv' /\ CapsInv'
    BY <1>0, <2>1, QuietFrame
  <2>5. OrderInv' /\ CancelInv'
    BY <1>0, <2>1, <2>3 DEF OrderInv, CancelInv, Alive
  <2>6. main' = "done" => stderr' = stderr
    BY <1>0, <2>1, <2>3 DEF OrderInv
  <2>7. VerdictInv'
    BY <1>0, <2>1, <2>6, VerdictFrame
  <2> QED BY <2>4, <2>5, <2>7
<1>7. CASE Drain \/ WaitReturns \/ ReadCancelled
  <2>1. /\ UNCHANGED <<proc, clean, acted, told, pipe, reader, coll, caps, exitErr, ctx>>
        /\ main' # "done" /\ main' # "drain"
        /\ main = "drain" => reader # "scan" /\ main' = "wait"
        /\ main # "drain" => main \in {"stderr", "exited"}
    BY <1>7 DEF Drain, WaitReturns, ReadCancelled
  <2>2. PipeInv' /\ CollectorInv' /\ CapsInv'
    BY <1>0, <2>1, QuietFrame
  <2>3. OrderInv'
    BY <1>0, <2>1 DEF OrderInv, Alive
  <2>4. CancelInv'
    BY <1>0, <1>7 DEF Drain, WaitReturns, ReadCancelled, CancelInv, TypeOK
  <2>5. VerdictInv'
    BY <2>1 DEF VerdictInv
  <2> QED BY <2>2, <2>3, <2>4, <2>5
<1>8. CASE Reap
  <2>1. /\ UNCHANGED <<clean, acted, told, coll, caps, current, ctx>>
        /\ main' = "stderr" /\ proc' = "reaped" /\ pipe' = <<>> /\ main = "wait"
        /\ exitErr' = (~clean \/ ctx)
    BY <1>8 DEF Reap
  <2>2. reader # "scan" /\ reader' = reader /\ (reader # "failed" => pipe = <<>>)
    BY <1>0, <1>8, <2>1 DEF OrderInv, Reap, TypeOK
  <2>3. PipeInv' /\ CollectorInv' /\ CapsInv'
    BY <1>0, <2>1, <2>2, QuietFrame
  <2>4. OrderInv' /\ CancelInv'
    BY <1>0, <2>1, <2>2 DEF OrderInv, CancelInv, Alive
  <2>5. VerdictInv'
    BY <2>1 DEF VerdictInv
  <2> QED BY <2>3, <2>4, <2>5
<1>9. CASE ReadTimedOut
  <2>1. /\ UNCHANGED <<proc, clean, stderr, acted, told, pipe, reader, coll, caps, timedOut,
                      exitErr, current, ctx>>
        /\ main = "looked" /\ main' = "done" /\ verdict' = Classify
    BY <1>9 DEF ReadTimedOut
  <2>2. PipeInv' /\ CollectorInv' /\ CapsInv'
    BY <1>0, <2>1, QuietFrame
  <2>3. OrderInv' /\ CancelInv'
    BY <1>0, <2>1 DEF OrderInv, CancelInv, Alive
  <2>4. Classify' = Classify
    BY <2>1 DEF Classify, Says
  <2>5. VerdictInv'
    BY <2>1, <2>4, ClassifySuccess DEF VerdictInv
  <2> QED BY <2>2, <2>3, <2>5
<1>10. CASE Cancel
  <2>1. /\ UNCHANGED <<proc, clean, stderr, acted, told, pipe, reader, coll, caps, main, exitErr>>
        /\ main # "done" /\ ctx' = TRUE /\ current' = [current EXCEPT !.cancelled = TRUE]
    BY <1>10 DEF Cancel
  <2>2. PipeInv' /\ CollectorInv' /\ CapsInv'
    BY <1>0, <2>1, QuietFrame
  <2>3. OrderInv'
    BY <1>0, <2>1 DEF OrderInv, Alive
  <2>4. CancelInv'
    <3>1. current'.cancelled = TRUE
      BY <1>0, <2>1 DEF TypeOK
    <3> QED BY <2>1, <3>1 DEF CancelInv
  <2>5. VerdictInv'
    BY <2>1 DEF VerdictInv
  <2> QED BY <2>2, <2>3, <2>4, <2>5
<1> QED
  BY <1>1, <1>2, <1>3, <1>4, <1>5, <1>6, <1>7, <1>8, <1>9, <1>10
     DEF Next, Claude, Reader, Dog, Main

\* The invariant holds when the process starts.
LEMMA RunInit == Init => RunInv
<1> SUFFICES ASSUME Init PROVE RunInv
  OBVIOUS
<1>0. /\ coll.result = NoResult /\ ~coll.tools /\ ~coll.limited
      /\ told.init = {} /\ told.result = NoResult /\ ~told.limit
      /\ ~current.cancelled /\ ~current.read /\ Len(pipe) = 0
  BY DEF Init
<1>1. TypeOK
  <2>1. coll \in [result : Results \union {NoResult}, tools : BOOLEAN, limited : BOOLEAN]
    BY DEF Init
  <2>2. told \in [init : SUBSET InitLine, result : Results \union {NoResult}, limit : BOOLEAN]
    BY DEF Init
  <2>3. verdict \in [st : {"succeeded", "needs_input", "failed", "cancelled"}, kind : Kinds]
        /\ stderr \in Texts
    BY DEF Init, NoVerdict, Fail, Kinds, Texts
  <2>4. pipe \in Seq(Line) /\ Len(pipe) <= PipeSize
    BY <1>0, ExecuteAssumption DEF Init
  <2>5. current \in [cancelled : BOOLEAN, read : BOOLEAN]
    BY DEF Init
  <2> QED BY <2>1, <2>2, <2>3, <2>4, <2>5 DEF Init, TypeOK
<1>2. OrderInv /\ CancelInv /\ VerdictInv
  BY <1>0 DEF Init, OrderInv, CancelInv, VerdictInv, Alive
<1>3. PipeInv /\ CollectorInv /\ CapsInv
  BY <1>0 DEF Init, PipeInv, CollectorInv, CapsInv
<1> QED BY <1>1, <1>2, <1>3 DEF RunInv

\* The invariant holds throughout.
LEMMA RunInvariance == Spec => []RunInv
<1>1. RunInv /\ [Next]_vars => RunInv'
  BY TypeStep, RunStep DEF RunInv
<1> QED BY <1>1, RunInit, PTL DEF Spec

-----------------------------------------------------------------------------
(* The theorems *)

\* The process, the reader, the watchdog and execute keep their types.
THEOREM ExecuteTypeCorrect == Spec => []TypeOK
<1>1. RunInv => TypeOK
  BY DEF RunInv
<1> QED BY <1>1, RunInvariance, PTL

\* A tool call is counted before execute returns, unless the stream broke: the
\* call was printed, and the reader stops at the end of an empty pipe only.
THEOREM CallsAreCounted == Spec => []ToolsAreCounted
<1>1. RunInv => ToolsAreCounted
  <2> SUFFICES ASSUME RunInv, main = "done", acted, reader # "failed" PROVE coll.tools
    BY DEF ToolsAreCounted
  <2>1. reader = "done" /\ pipe = <<>>
    BY DEF RunInv, TypeOK, OrderInv
  <2>2. ~InPipe("tool")
    BY <2>1 DEF InPipe
  <2> QED BY <2>2 DEF RunInv, CollectorInv
<1> QED BY <1>1, RunInvariance, PTL

\* A success is one that claude reported, exited cleanly from, and had what the
\* queue requires for, whichever lines the reader got to see.
THEOREM SuccessSound == Spec => []SuccessIsEarned
<1>1. RunInv => SuccessIsEarned
  <2> SUFFICES ASSUME RunInv, main = "done", verdict.st \in {"succeeded", "needs_input"}
               PROVE  /\ told.result.outcome = verdict.st
                      /\ ~told.result.error /\ ~told.result.maxTurns
                      /\ clean /\ ~current.read
                      /\ \A line \in told.init : Meets(line)
    BY DEF SuccessIsEarned
  <2>1. /\ coll.result # NoResult /\ coll.result.outcome = verdict.st
        /\ ~coll.result.error /\ ~coll.result.maxTurns
        /\ ~exitErr /\ ~current.read /\ caps \notin {"missing", "pending"}
    BY DEF RunInv, VerdictInv
  <2>2. coll.result = told.result
    BY <2>1 DEF RunInv, CollectorInv
  <2>3. clean
    BY <2>1 DEF RunInv, OrderInv
  <2>4. ASSUME NEW line \in told.init PROVE Meets(line)
    <3>1. line \in InitLine /\ caps = CheckCapabilities(line)
      BY <2>1 DEF RunInv, CapsInv, TypeOK
    <3> QED BY <2>1, <3>1, CapabilitiesMet
  <2> QED BY <2>1, <2>2, <2>3, <2>4
<1> QED BY <1>1, RunInvariance, PTL

\* The reported outcome is the recorded one when nothing stopped or broke the run.
THEOREM OutcomeSurvives == Spec => []OutcomeIsKept
<1>1. RunInv => OutcomeIsKept
  <2> SUFFICES ASSUME RunInv, main = "done", reader # "failed", clean, ~ctx, ~timedOut,
                      stderr = "plain", ~told.limit,
                      told.result.text = "plain", ~told.result.error, ~told.result.maxTurns,
                      told.result.outcome \in {"succeeded", "needs_input", "failed"},
                      \A line \in told.init : Meets(line)
               PROVE  verdict = Pass(told.result.outcome)
    BY DEF OutcomeIsKept
  <2>1. reader = "done" /\ pipe = <<>>
    BY DEF RunInv, TypeOK, OrderInv
  <2>2. ~InPipe("result")
    BY <2>1 DEF InPipe
  <2>3. told.result # NoResult
    BY NoResultIsNone
  <2>4. coll.result = told.result /\ ~coll.limited
    BY <2>2, <2>3 DEF RunInv, CollectorInv
  <2>5. ~exitErr /\ ~current.read
    BY DEF RunInv, OrderInv, CancelInv
  <2>6. caps \notin {"missing", "pending"}
    <3>1. CASE told.init = {}
      BY <3>1 DEF RunInv, CapsInv
    <3>2. ASSUME NEW line \in told.init PROVE caps = "ok"
      BY <2>1, <3>2, CapabilitiesMet DEF RunInv, CapsInv, TypeOK
    <3> QED BY <3>1, <3>2
  <2>7. verdict = Classify
    BY DEF RunInv, VerdictInv
  <2> QED BY <2>3, <2>4, <2>5, <2>6, <2>7 DEF Classify, Says
<1> QED BY <1>1, RunInvariance, PTL

-----------------------------------------------------------------------------
(* Execute implements Process *)

\* The abstract state: Process's phase, and whether a call
\* may have been made.
Phase(m) == CASE m = "exited" -> "exited" [] m = "looked" -> "looked"
              [] m = "done" -> "ended" [] OTHER -> "running"
Acted == coll.tools \/ (reader = "failed" /\ acted)

\* The phases, one by one.
LEMMA Phases ==
  /\ Phase("exited") = "exited" /\ Phase("looked") = "looked" /\ Phase("done") = "ended"
  /\ \A m \in {"drain", "wait", "stderr"} : Phase(m) = "running"
BY DEF Phase

\* A step that changes none of it is none of Process's.
LEMMA AbstractStutter ==
  ASSUME Phase(main') = Phase(main), verdict' = verdict, coll'.tools = coll.tools,
         Acted' = Acted, (reader' # "failed") = (reader # "failed"),
         current'.cancelled = current.cancelled, current'.read = current.read
  PROVE  UNCHANGED Abstract!vars
BY DEF Abstract!vars, Phase, Acted

\* A verdict with a kind is a failure, and the operator's stop alone gives
\* "cancelled": no outcome that claude reports has that name.
LEMMA ClassifyKinds ==
  ASSUME TypeOK
  PROVE  /\ Classify.kind # "none" => Classify.st = "failed"
         /\ Classify.st = "cancelled" <=> current.read
         /\ Classify.st \in {"succeeded", "needs_input", "failed", "cancelled"}
<1>1. coll.result.outcome \in Outcomes
  <2>1. coll.result \in Results => coll.result.outcome \in Outcomes
    BY ExecuteAssumption DEF ResultLine
  <2> QED BY <2>1, NoResultIsNone DEF TypeOK, Outcomes
<1>2. \A k : Fail(k).st = "failed"
  BY DEF Fail
<1>3. \A x : Pass(x).st = x /\ Pass(x).kind = "none"
  BY DEF Pass
<1>4. CASE current.read
  <2>1. Classify = Pass("cancelled")
    BY <1>4 DEF Classify
  <2> QED BY <1>3, <1>4, <2>1
<1>5. CASE ~current.read
  <2>1. (\E k : Classify = Fail(k))
        \/ (Classify = Pass(coll.result.outcome) /\ coll.result.outcome \notin {"none", "invalid"})
    BY <1>5 DEF Classify
  <2> QED BY <1>1, <1>2, <1>3, <1>5, <2>1 DEF Outcomes
<1> QED BY <1>4, <1>5

\* Every step of a run is one of Process's, or none.
LEMMA ProcessStep ==
  ASSUME RunInv, RunInv', [Next]_vars
  PROVE  [Abstract!Next]_(Abstract!vars)
<1> USE DEF procVars, readVars, mainVars, opVars
<1>0. coll.tools \in BOOLEAN /\ acted \in BOOLEAN /\ coll'.tools \in BOOLEAN /\ acted' \in BOOLEAN
  BY DEF RunInv, TypeOK
<1>1. CASE PrintInit \/ NoteLimit \/ PrintResult \/ Exit \/ HelperExits \/ Bark \/ Escalate
           \/ Heel \/ StreamEnds \/ Shutdown \/ UNCHANGED vars
  <2>1. UNCHANGED <<main, verdict, coll, current, acted>>
    BY <1>1 DEF PrintInit, NoteLimit, PrintResult, Exit, HelperExits, Bark, Escalate, Heel,
         StreamEnds, Shutdown, vars
  <2>2. (reader' # "failed") = (reader # "failed")
    BY <1>1 DEF PrintInit, NoteLimit, PrintResult, Exit, HelperExits, Bark, Escalate, Heel,
         StreamEnds, Shutdown, vars
  <2>3. Acted' = Acted
    BY <2>1, <2>2 DEF Acted
  <2> QED BY <2>1, <2>2, <2>3, AbstractStutter
<1>2. CASE Drain
  <2>1. UNCHANGED <<reader, verdict, coll, current, acted>> /\ main = "drain" /\ main' = "wait"
    BY <1>2 DEF Drain
  <2> QED BY <2>1, Phases, AbstractStutter DEF Acted
<1>3. CASE Reap
  <2>1. UNCHANGED <<reader, verdict, coll, current, acted>> /\ main = "wait" /\ main' = "stderr"
    BY <1>3 DEF Reap, RunInv, OrderInv
  <2> QED BY <2>1, Phases, AbstractStutter DEF Acted
<1>4. CASE ToolCall
  <2>1. UNCHANGED <<reader, main, verdict, coll, current>> /\ acted' = TRUE
    BY <1>4 DEF ToolCall
  <2>2. main \in {"drain", "wait"}
    BY <1>4 DEF ToolCall, Alive, RunInv, OrderInv, TypeOK
  <2>3. CASE reader # "failed"
    BY <2>1, <2>3, AbstractStutter DEF Acted
  <2>4. CASE reader = "failed"
    <3>1. Abstract!ToolCall
      BY <1>0, <2>1, <2>2, <2>4 DEF Abstract!ToolCall
    <3> QED BY <3>1 DEF Abstract!Next
  <2> QED BY <2>3, <2>4
<1>5. CASE Scan
  <2>1. UNCHANGED <<reader, main, verdict, current, acted>> /\ main = "drain" /\ reader = "scan"
    BY <1>5 DEF Scan, RunInv, OrderInv
  <2>2. coll \in CollState /\ Head(pipe) \in Line
    BY <1>5, TailFacts DEF Scan, RunInv, TypeOK, CollState
  <2>3. coll'.tools <=> (coll.tools \/ Head(pipe).t = "tool")
    BY <1>5, <2>2, ObserveFacts DEF Scan
  <2>4. CASE coll'.tools = coll.tools
    BY <2>1, <2>4, AbstractStutter DEF Acted
  <2>5. CASE coll'.tools = TRUE
    <3>1. Abstract!ToolCall
      BY <2>1, <2>5 DEF Abstract!ToolCall
    <3> QED BY <3>1 DEF Abstract!Next
  <2> QED BY <1>0, <2>3, <2>4, <2>5
<1>6. CASE StreamFails
  <2>1. /\ UNCHANGED <<main, verdict, coll, current, acted>>
        /\ reader = "scan" /\ reader' = "failed" /\ main = "drain"
    BY <1>6 DEF StreamFails, RunInv, OrderInv
  <2>2. Abstract!StreamFails
    BY <1>0, <2>1 DEF Abstract!StreamFails
  <2> QED BY <2>2 DEF Abstract!Next
<1>7. CASE WaitReturns
  <2>1. UNCHANGED <<reader, verdict, coll, current, acted>> /\ main = "stderr" /\ main' = "exited"
    BY <1>7 DEF WaitReturns
  <2>2. Abstract!Exits
    BY <2>1 DEF Abstract!Exits
  <2> QED BY <2>2 DEF Abstract!Next
<1>8. CASE ReadCancelled
  <2>1. /\ UNCHANGED <<reader, verdict, coll, acted>> /\ main = "exited" /\ main' = "looked"
        /\ current'.read = current.cancelled /\ current'.cancelled = current.cancelled
    BY <1>8 DEF ReadCancelled, RunInv, TypeOK
  <2>2. Abstract!ReadCancelled
    BY <2>1 DEF Abstract!ReadCancelled
  <2> QED BY <2>2 DEF Abstract!Next
<1>9. CASE Cancel
  <2>1. /\ UNCHANGED <<reader, main, verdict, coll, acted>> /\ main # "done"
        /\ current' = [current EXCEPT !.cancelled = TRUE]
    BY <1>9 DEF Cancel
  <2>2. current'.cancelled = TRUE /\ current'.read = current.read
    BY <2>1 DEF RunInv, TypeOK
  <2>3. Phase(main) # "ended"
    BY <2>1 DEF Phase, RunInv, TypeOK
  <2>4. Abstract!Cancel
    BY <2>1, <2>2, <2>3 DEF Abstract!Cancel, Phase
  <2> QED BY <2>4 DEF Abstract!Next
<1>10. CASE ReadTimedOut
  <2>1. /\ UNCHANGED <<reader, coll, current, acted>> /\ main = "looked" /\ main' = "done"
        /\ verdict' = Classify
    BY <1>10 DEF ReadTimedOut
  <2>2. /\ Classify.kind # "none" => Classify.st = "failed"
        /\ Classify.st = "cancelled" <=> current.read
        /\ Classify.st \in {"succeeded", "needs_input", "failed", "cancelled"}
    BY ClassifyKinds DEF RunInv
  <2>3. Kind(Classify.kind) \in {"none", "blocking", "pending", "missing"}
        /\ (Classify.kind = "none" => Kind(Classify.kind) = "none")
    BY DEF Kind
  <2>4. PICK v : v = [st |-> Classify.st, kind |-> Kind(Classify.kind)]
    OBVIOUS
  <2>5. /\ v \in Abstract!Verdict /\ (v.kind # "none" => v.st = "failed")
        /\ (v.st = "cancelled") = current.read
    <3>1. v.st = Classify.st /\ v.kind = Kind(Classify.kind) /\ current.read \in BOOLEAN
      BY <2>4 DEF RunInv, TypeOK
    <3>2. v \in Abstract!Verdict
      BY <2>2, <2>3, <2>4 DEF Abstract!Verdict, Abstract!Statuses
    <3> QED BY <2>2, <2>3, <3>1, <3>2
  <2>6. Abstract!Ends
    <3>1. [st |-> verdict'.st, kind |-> Kind(verdict'.kind)] = v
      BY <2>1, <2>4
    <3> QED BY <2>1, <2>5, <3>1 DEF Abstract!Ends
  <2> QED BY <2>6 DEF Abstract!Next
<1> QED
  BY <1>1, <1>2, <1>3, <1>4, <1>5, <1>6, <1>7, <1>8, <1>9, <1>10
     DEF Next, Claude, Reader, Dog, Main

\* execute with its goroutines is, to the rest of the service, what Process says:
\* every step of it is a step of Process or none.
THEOREM ExecuteImplementsProcess == Spec => ImplementsProcess
<1>1. Init => Abstract!Init
  <2> SUFFICES ASSUME Init PROVE Abstract!Init
    OBVIOUS
  <2>1. verdict.st = "failed" /\ Kind(verdict.kind) = "none"
    BY DEF Init, NoVerdict, Fail, Kind
  <2> QED BY <2>1 DEF Init, Abstract!Init, Abstract!NoVerdict
<1>2. RunInv /\ RunInv' /\ [Next]_vars => [Abstract!Next]_(Abstract!vars)
  BY ProcessStep
<1> QED BY <1>1, <1>2, RunInvariance, PTL DEF Spec, ImplementsProcess, Abstract!Spec

=============================================================================
