------------------------------- MODULE Spool -------------------------------
(***************************************************************************)
(* The life of a job: the jobs table and the webhook outbox (SQLite, so    *)
(* each statement or transaction is one step), and the goroutines that     *)
(* write them: the executor loop, the HTTP handlers, the queue reloader    *)
(* and start-up recovery.  A goroutine that makes several store calls      *)
(* takes one step per call, so every interleaving the single database      *)
(* connection allows is a behaviour.                                       *)
(*                                                                         *)
(* Three things outside this module delay the executor, perhaps for ever:  *)
(* the gate in executor_state, the claude lock while a keep-alive or a     *)
(* login has it, and a helper of the process that keeps its stderr open.   *)
(* Here the step that waits for one of them may happen at any time, and    *)
(* nothing says that it ever does.                                         *)
(***************************************************************************)
EXTENDS Naturals, Sequences, FiniteSets

CONSTANTS
  Queues,        \* names that may appear in queues.yaml
  Clients,       \* concurrent HTTP requests
  Loaders,       \* goroutines that call ReloadIfChanged: the poll, SIGHUP
  MaxJobs,       \* bound: ids ever minted
  Priorities,    \* priorities a client submits with (naturals)
  Keys,          \* idempotency keys
  NoKey,         \* the empty Idempotency-Key header
  maxCapabilityRetries,
  MaxRuns,       \* bound: claims of a job that may end in an auth or usage failure
  MaxCrashes,    \* bound: process deaths
  MaxEdits,      \* bound: edits of queues.yaml
  Faults         \* which I/O failures happen: a subset of {"stream", "store"}

ASSUME SpoolAssumptions ==
  /\ Queues # {}
  /\ MaxJobs \in Nat
  /\ Priorities \subseteq Nat
  /\ NoKey \notin Keys
  /\ maxCapabilityRetries \in Nat
  /\ MaxRuns \in Nat
  /\ MaxCrashes \in Nat
  /\ MaxEdits \in Nat
  /\ Faults \subseteq {"stream", "store"}

VARIABLES
  jobs,       \* the jobs table: id -> row
  outbox,     \* webhook rows enqueued for each job: the status each reports
  paused,     \* queue_runtime.paused
  file,       \* the queues named in queues.yaml on disk
  config,     \* the QueueSet in memory
  lastHash,   \* Reloader.lastHash: the contents it compares the file with
  nextId,     \* ids minted so far
  boot,       \* start-up progress: [pc, ids] (ids still to be notified)
  stopping,   \* the root context is cancelled (SIGINT/SIGTERM)
  exec,       \* the executor goroutine
  current,    \* Executor.current: [id, cancelled]; id 0 is nil
  reload,     \* each call of ReloadIfChanged
  req,        \* each HTTP request
  effects,    \* history: jobs whose claude process made a tool call
  absent,     \* history: queues that some config adopted so far lacks
  overlap,    \* history: two calls of ReloadIfChanged were under way at once
  bounds      \* [crashes, edits] used so far

dbVars   == <<jobs, outbox, paused>>
cfgVars  == <<file, config, lastHash, absent, overlap>>
procVars == <<boot, stopping, bounds>>
runVars  == <<exec, current, effects>>
vars == <<dbVars, cfgVars, procVars, runVars, nextId, reload, req>>

-----------------------------------------------------------------------------
(* Types: internal/store/job.go *)

JobIds == 1 .. MaxJobs
NoId   == 0

Terminal  == {"succeeded", "failed", "needs_input", "cancelled", "interrupted"}
JobStatus == {"queued", "running"} \union Terminal

Retryable == {"failed", "needs_input", "cancelled", "interrupted"}

Row == [st : JobStatus \union {"none"}, q : Queues, pri : Nat,
        key : Keys \union {NoKey}, att : Nat,
        par : JobIds \union {NoId}, resume : BOOLEAN, sess : BOOLEAN]

\* A row as Insert writes it; Blank stands for an id without a row.
RowWith(st, q, pri, key, par, resume) ==
  [st |-> st, q |-> q, pri |-> pri, key |-> key, att |-> 0,
   par |-> par, resume |-> resume, sess |-> FALSE]
NewRow(q, pri, key, par, resume) == RowWith("queued", q, pri, key, par, resume)
Blank == RowWith("none", CHOOSE q \in Queues : TRUE, 0, NoKey, NoId, FALSE)

\* A verdict of claudecli.Classify, keeping of error_kind only what runJob
\* branches on: blocking is auth and usage_limit, pending and missing are the
\* capability kinds, none is every other kind and no kind at all.
Verdict == [st : Terminal, kind : {"none", "blocking", "pending", "missing"}, sess : BOOLEAN]

Failed(k) == [st |-> "failed", kind |-> k, sess |-> FALSE]
NoVerdict == Failed("none")  \* also a run that failed before Claude had a say

ExecPcs == {"off", "idle", "pick", "claim", "claimed", "lock", "start", "running",
            "held", "exited", "unwind", "decide", "requeue", "finish"}

ExecState == [pc : ExecPcs, q : SUBSET Queues, id : JobIds \union {NoId}, res : Verdict,
              seen : BOOLEAN, streaming : BOOLEAN]

ExecAt(pc, j) == [pc |-> pc, q |-> {}, id |-> j, res |-> NoVerdict,
                  seen |-> FALSE, streaming |-> FALSE]
Idle == ExecAt("idle", NoId)
Off  == ExecAt("off", NoId)
CurrentState == [id : JobIds \union {NoId}, cancelled : BOOLEAN]
NoCurrent == [id |-> NoId, cancelled |-> FALSE]

\* Phases in which the executor owns the row exec.id.
Owning == {"claimed", "lock", "start", "running", "held", "exited", "unwind",
           "decide", "requeue", "finish"}

\* Phases in which it holds the claude lock and Executor.current is set.
Inside == {"start", "running", "held", "exited", "unwind"}

Exists(j) == jobs[j].st # "none"
QueuedIn(q) == {j \in JobIds : jobs[j].st = "queued" /\ jobs[j].q = q}
RunningJobs == {j \in JobIds : jobs[j].st = "running"}
Up == boot.pc = "up"

-----------------------------------------------------------------------------
(* Notifications: internal/event/notifier.go *)

\* Notifier.Deliveries for a job event, every configured queue having a
\* receiver for it: rows only while the queue is in the running config.
Deliveries(q, s) == IF q \in config THEN <<s>> ELSE <<>>

\* notifyJob: read the row, and enqueue its event if its status emits one.
NotifyJob(j) ==
  outbox' = IF jobs[j].st \in Terminal
            THEN [outbox EXCEPT ![j] = @ \o Deliveries(jobs[j].q, jobs[j].st)]
            ELSE outbox

-----------------------------------------------------------------------------
(* The executor loop: internal/executor/executor.go *)

ExecStep(pc) == Up /\ exec.pc = pc

\* step: the gate is read and is open; as long as it is closed, the loop waits
\* for a wake or the idle poll and reads it again.
ReadGate ==
  /\ ExecStep("idle") /\ ~stopping
  /\ exec' = [exec EXCEPT !.pc = "pick"]
  /\ UNCHANGED <<dbVars, cfgVars, procVars, current, effects, nextId, reload, req>>

\* The queues pick hands to sched.Pick.
Candidates == {q \in config : QueuedIn(q) # {} /\ ~paused[q]}

\* pick: any candidate may win here; which one does is the scheduler's matter.
Pick ==
  /\ ExecStep("pick") /\ ~stopping
  /\ \/ /\ Candidates = {} \/ "store" \in Faults
        /\ exec' = Idle
     \/ \E q \in Candidates : exec' = [exec EXCEPT !.pc = "claim", !.q = {q}]
  /\ UNCHANGED <<dbVars, cfgVars, procVars, current, effects, nextId, reload, req>>

\* ORDER BY priority DESC, id ASC
Before(i, j) == jobs[i].pri > jobs[j].pri \/ (jobs[i].pri = jobs[j].pri /\ i < j)
IsHead(j, q) == j \in QueuedIn(q) /\ \A i \in QueuedIn(q) \ {j} : Before(j, i)

\* Mutant: any error of Claim, ErrNotFound too, ends the loop.
ClaimErrorExits ==
  /\ ExecStep("claim") /\ ~stopping
  /\ \/ /\ \A q \in exec.q : QueuedIn(q) = {}
        /\ exec' = Off
        /\ UNCHANGED jobs
     \/ \E q \in exec.q : \E j \in JobIds :
          /\ IsHead(j, q)
          /\ jobs' = [jobs EXCEPT ![j].st = "running", ![j].att = @ + 1]
          /\ exec' = ExecAt("claimed", j)
  /\ UNCHANGED <<outbox, paused, cfgVars, procVars, current, effects, nextId, reload, req>>

\* Claim: the head becomes running; ErrNotFound, or another error after a pause,
\* sends the loop round again.
Claim ==
  /\ ExecStep("claim") /\ ~stopping
  /\ \/ /\ (\A q \in exec.q : QueuedIn(q) = {}) \/ "store" \in Faults
        /\ exec' = Idle
        /\ UNCHANGED jobs
     \/ \E q \in exec.q : \E j \in JobIds :
          /\ IsHead(j, q)
          /\ jobs' = [jobs EXCEPT ![j].st = "running", ![j].att = @ + 1]
          /\ exec' = ExecAt("claimed", j)
  /\ UNCHANGED <<outbox, paused, cfgVars, procVars, current, effects, nextId, reload, req>>

\* A cancelled context ends the loop at its next check.
ExecutorExits ==
  /\ Up /\ stopping
  /\ exec.pc \in {"idle", "pick", "claim"}
  /\ exec' = Off
  /\ UNCHANGED <<dbVars, cfgVars, procVars, current, effects, nextId, reload, req>>

-----------------------------------------------------------------------------
(* One run: internal/executor/run.go *)

\* runJob looks the queue up again, then execute prepares the directories.
\* Preparation fails on an I/O error or a cancelled context.
PrepareRun ==
  /\ ExecStep("claimed")
  /\ \/ /\ jobs[exec.id].q \in config
        /\ exec' = [exec EXCEPT !.pc = "lock"]
     \/ /\ jobs[exec.id].q \notin config \/ stopping \/ "store" \in Faults
        /\ exec' = [exec EXCEPT !.pc = "finish", !.res = NoVerdict]
  /\ UNCHANGED <<dbVars, cfgVars, procVars, current, effects, nextId, reload, req>>

\* lock.Acquire, which waits for whoever has the lock, then setCurrent.
AcquireLock ==
  /\ ExecStep("lock")
  /\ current' = [id |-> exec.id, cancelled |-> FALSE]
  /\ exec' = [exec EXCEPT !.pc = "start"]
  /\ UNCHANGED <<dbVars, cfgVars, procVars, effects, nextId, reload, req>>

\* Acquire gives up when the context is cancelled, before setCurrent.
LockAbandoned ==
  /\ ExecStep("lock") /\ stopping
  /\ exec' = [exec EXCEPT !.pc = "finish", !.res = NoVerdict]
  /\ UNCHANGED <<dbVars, cfgVars, procVars, current, effects, nextId, reload, req>>

\* cmd.Start: refuses a context already cancelled, by Cancel or by shutdown.
StartClaude ==
  /\ ExecStep("start")
  /\ \/ /\ ~current.cancelled /\ ~stopping
        /\ exec' = [exec EXCEPT !.pc = "running", !.streaming = TRUE]
     \/ /\ current.cancelled \/ stopping \/ "store" \in Faults
        /\ exec' = [exec EXCEPT !.pc = "unwind", !.res = NoVerdict]
  /\ UNCHANGED <<dbVars, cfgVars, procVars, current, effects, nextId, reload, req>>

\* The process makes a tool call.  The Collector counts it while ScanEvents
\* is still reading the stream.
ToolCall ==
  /\ ExecStep("running")
  /\ effects' = effects \union {exec.id}
  /\ exec' = [exec EXCEPT !.seen = @ \/ exec.streaming]
  /\ <<effects', exec'>> # <<effects, exec>>
  /\ UNCHANGED <<dbVars, cfgVars, procVars, current, nextId, reload, req>>

\* ScanEvents returns early: the transcript write failed or a line was too
\* long.  execute logs it and carries on with what was collected so far.
StreamFails ==
  /\ ExecStep("running")
  /\ "stream" \in Faults /\ exec.streaming
  /\ exec' = [exec EXCEPT !.streaming = FALSE]
  /\ UNCHANGED <<dbVars, cfgVars, procVars, current, effects, nextId, reload, req>>

\* What Classify can return for job j when it was not cancelled.  A session id
\* matters to replyJob alone, so it is kept for needs_input alone.  Auth and usage
\* failures, which requeue without limit, are bounded by MaxRuns.
Verdicts(j) ==
  {v \in Verdict :
     /\ v.st \in {"succeeded", "needs_input", "failed"}
     /\ v.kind # "none" => v.st = "failed"
     /\ v.sess => v.st = "needs_input"
     /\ v.kind = "blocking" => jobs[j].att <= MaxRuns}

\* cmd.Wait returns, and the result is classified.
Reaped ==
  /\ \E v \in Verdicts(exec.id) : exec' = [exec EXCEPT !.pc = "exited", !.res = v]
  /\ UNCHANGED <<dbVars, cfgVars, procVars, current, effects, nextId, reload, req>>

\* The process ends (by itself, stopped, or killed) and is reaped,
ClaudeExits == ExecStep("running") /\ Reaped

\* or it leaves a helper behind that has its stderr: cmd.Wait goes on copying
\* from it, and neither the queue timeout nor a cancellation ends that
HelperHolds ==
  /\ ExecStep("running")
  /\ exec' = [exec EXCEPT !.pc = "held"]
  /\ UNCHANGED <<dbVars, cfgVars, procVars, current, effects, nextId, reload, req>>

\* before the helper closes it.
HelperLetsGo == ExecStep("held") /\ Reaped

\* Mutant: an intermediate status for a run being cancelled.
ReadCancelledAsCancelling ==
  /\ ExecStep("exited")
  /\ exec' = [exec EXCEPT !.pc = "unwind",
                !.res.st = IF current.cancelled THEN "cancelling" ELSE @]
  /\ UNCHANGED <<dbVars, cfgVars, procVars, current, effects, nextId, reload, req>>

\* wasCancelled is read; a cancellation outranks any other verdict.
ReadCancelled ==
  /\ ExecStep("exited")
  /\ exec' = [exec EXCEPT !.pc = "unwind",
                !.res = IF current.id = exec.id /\ current.cancelled
                        THEN [st |-> "cancelled", kind |-> "none", sess |-> FALSE]
                        ELSE @]
  /\ UNCHANGED <<dbVars, cfgVars, procVars, current, effects, nextId, reload, req>>

\* Mutant: clearCurrent is forgotten.
UnwindKeepsCurrent ==
  /\ ExecStep("unwind")
  /\ exec' = [exec EXCEPT !.pc = "decide"]
  /\ UNCHANGED <<dbVars, cfgVars, procVars, current, effects, nextId, reload, req>>

\* execute's deferred clearCurrent and release.
Unwind ==
  /\ ExecStep("unwind")
  /\ current' = NoCurrent
  /\ exec' = [exec EXCEPT !.pc = "decide"]
  /\ UNCHANGED <<dbVars, cfgVars, procVars, effects, nextId, reload, req>>

\* Mutant: requeue without looking at the tool calls.
DecideIgnoresTools ==
  /\ ExecStep("decide")
  /\ exec' = [exec EXCEPT !.pc = IF exec.res.kind = "blocking" THEN "requeue" ELSE "finish"]
  /\ UNCHANGED <<dbVars, cfgVars, procVars, current, effects, nextId, reload, req>>

\* runJob's branches up to the row's last write: a missing capability pauses
\* the queue, and a run that showed no tool call may be requeued.  (A blocking
\* failure also closes the gate.)
Decide ==
  /\ ExecStep("decide")
  /\ \/ /\ exec.res.kind = "missing" /\ ~stopping
        /\ paused' = [paused EXCEPT ![jobs[exec.id].q] = TRUE]
     \/ /\ exec.res.kind # "missing" \/ stopping \/ "store" \in Faults
        /\ UNCHANGED paused
  /\ exec' = [exec EXCEPT !.pc =
       IF ~exec.seen /\ \/ exec.res.kind = "blocking"
                        \/ /\ exec.res.kind = "pending"
                           /\ jobs[exec.id].att < maxCapabilityRetries
       THEN "requeue" ELSE "finish"]
  /\ UNCHANGED <<jobs, outbox, cfgVars, procVars, current, effects, nextId, reload, req>>

\* Mutant: the failure is announced although the job goes back to the queue.
RequeueNotifies ==
  /\ ExecStep("requeue")
  /\ jobs' = [jobs EXCEPT ![exec.id].st = "queued"]
  /\ outbox' = [outbox EXCEPT ![exec.id] = @ \o Deliveries(jobs[exec.id].q, exec.res.st)]
  /\ exec' = Idle
  /\ UNCHANGED <<paused, cfgVars, procVars, current, effects, nextId, reload, req>>

\* Requeue: only a row still running.  Under a cancelled context, or when the
\* statement fails, runJob falls through to finish.
Requeue ==
  /\ ExecStep("requeue")
  /\ \/ /\ ~stopping /\ jobs[exec.id].st = "running"
        /\ jobs' = [jobs EXCEPT ![exec.id].st = "queued"]
        /\ exec' = Idle
     \/ /\ stopping \/ jobs[exec.id].st # "running" \/ "store" \in Faults
        /\ exec' = [exec EXCEPT !.pc = "finish"]
        /\ UNCHANGED jobs
  /\ UNCHANGED <<outbox, paused, cfgVars, procVars, current, effects, nextId, reload, req>>

\* Mutant: the deliveries are written under the caller's context.
FinishDropsEvent ==
  /\ ExecStep("finish")
  /\ jobs' = [jobs EXCEPT ![exec.id].st = exec.res.st, ![exec.id].sess = exec.res.sess]
  /\ outbox' = IF stopping THEN outbox ELSE
       [outbox EXCEPT ![exec.id] = @ \o Deliveries(jobs[exec.id].q, exec.res.st)]
  /\ exec' = Idle
  /\ UNCHANGED <<paused, cfgVars, procVars, current, effects, nextId, reload, req>>

\* finish: result and deliveries in one transaction, whatever the context; the
\* UPDATE names the row by id alone.  A failed transaction is only logged.
Finish ==
  /\ ExecStep("finish")
  /\ \/ /\ jobs' = [jobs EXCEPT ![exec.id].st = exec.res.st, ![exec.id].sess = exec.res.sess]
        /\ outbox' = [outbox EXCEPT ![exec.id] = @ \o Deliveries(jobs[exec.id].q, exec.res.st)]
     \/ /\ "store" \in Faults
        /\ UNCHANGED <<jobs, outbox>>
  /\ exec' = Idle
  /\ UNCHANGED <<paused, cfgVars, procVars, current, effects, nextId, reload, req>>

-----------------------------------------------------------------------------
(* HTTP handlers: internal/api/jobs.go, queues.go *)

NoReq == [pc |-> "idle", id |-> NoId, row |-> Blank]
ReqPcs == {"idle", "insert", "stop", "cancel", "notify", "refused"}

ReqState == [pc : ReqPcs, id : JobIds \union {NoId}, row : Row]

Free(c) == Up /\ req[c].pc \in {"idle", "refused"}

\* submitJob and createChild up to Insert: the checks have passed on the config
\* and parent row read now, and the id is minted.
Mint(c, row) ==
  /\ nextId < MaxJobs
  /\ nextId' = nextId + 1
  /\ req' = [req EXCEPT ![c] = [pc |-> "insert", id |-> nextId + 1, row |-> row]]
  /\ UNCHANGED <<dbVars, cfgVars, procVars, runVars, reload>>

Submit(c) ==
  /\ Free(c)
  /\ \E q \in config, p \in Priorities, k \in Keys \union {NoKey} :
       Mint(c, NewRow(q, p, k, NoId, FALSE))

\* Mutant: any finished job may be retried.
RetryAnyTerminal(c) ==
  /\ Free(c)
  /\ \E p \in JobIds :
       /\ jobs[p].st \in Terminal
       /\ jobs[p].q \in config
       /\ Mint(c, NewRow(jobs[p].q, jobs[p].pri, NoKey, p, FALSE))

RetryJob(c) ==
  /\ Free(c)
  /\ \E p \in JobIds :
       /\ jobs[p].st \in Retryable
       /\ jobs[p].q \in config
       /\ Mint(c, NewRow(jobs[p].q, jobs[p].pri, NoKey, p, FALSE))

ReplyJob(c) ==
  /\ Free(c)
  /\ \E p \in JobIds :
       /\ jobs[p].st = "needs_input" /\ jobs[p].sess
       /\ jobs[p].q \in config
       /\ Mint(c, NewRow(jobs[p].q, jobs[p].pri, NoKey, p, TRUE))

\* Mutant: the key is only held while its job is waiting.
KeyTakenByWaiting(row) ==
  \E j \in JobIds : jobs[j].st = "queued" /\ jobs[j].q = row.q /\ jobs[j].key = row.key

\* The unique index on (queue, idempotency_key).
KeyTaken(row) ==
  /\ row.key # NoKey
  /\ \E j \in JobIds : Exists(j) /\ jobs[j].q = row.q /\ jobs[j].key = row.key

\* Insert: a replayed key answers with the stored row and writes nothing.
Insert(c) ==
  /\ Up /\ req[c].pc = "insert"
  /\ jobs' = IF KeyTaken(req[c].row) THEN jobs ELSE [jobs EXCEPT ![req[c].id] = req[c].row]
  /\ req' = [req EXCEPT ![c] = NoReq]
  /\ UNCHANGED <<outbox, paused, cfgVars, procVars, runVars, nextId, reload>>

\* cancelJob: the row is read, and the status it had then picks the path.
CancelJob(c) ==
  /\ Free(c)
  /\ \E j \in JobIds :
       /\ Exists(j)
       /\ req' = [req EXCEPT ![c] = [pc |-> IF jobs[j].st = "running" THEN "stop" ELSE "cancel",
                                     id |-> j, row |-> Blank]]
  /\ UNCHANGED <<dbVars, cfgVars, procVars, runVars, nextId, reload>>

\* Executor.Cancel: 202 when the job is the current one, else 409 "the job is
\* no longer running".
CancelRunning(c) ==
  /\ Up /\ req[c].pc = "stop"
  /\ IF current.id = req[c].id
     THEN /\ current' = [current EXCEPT !.cancelled = TRUE]
          /\ req' = [req EXCEPT ![c] = NoReq]
     ELSE /\ req' = [req EXCEPT ![c].pc = "refused"]
          /\ UNCHANGED current
  /\ UNCHANGED <<dbVars, cfgVars, procVars, exec, effects, nextId, reload>>

\* Mutant: the UPDATE without its status guard.
CancelUnguarded(c) ==
  /\ Up /\ req[c].pc = "cancel"
  /\ jobs' = [jobs EXCEPT ![req[c].id].st = "cancelled"]
  /\ req' = [req EXCEPT ![c].pc = "notify"]
  /\ UNCHANGED <<outbox, paused, cfgVars, procVars, runVars, nextId, reload>>

\* store.Cancel: only a row still queued; otherwise 409.
CancelQueued(c) ==
  /\ Up /\ req[c].pc = "cancel"
  /\ IF jobs[req[c].id].st = "queued"
     THEN /\ jobs' = [jobs EXCEPT ![req[c].id].st = "cancelled"]
          /\ req' = [req EXCEPT ![c].pc = "notify"]
     ELSE /\ req' = [req EXCEPT ![c] = NoReq]
          /\ UNCHANGED jobs
  /\ UNCHANGED <<outbox, paused, cfgVars, procVars, runVars, nextId, reload>>

\* The cancellation's event, in a transaction of its own.
CancelNotify(c) ==
  /\ Up /\ req[c].pc = "notify"
  /\ NotifyJob(req[c].id)
  /\ req' = [req EXCEPT ![c] = NoReq]
  /\ UNCHANGED <<jobs, paused, cfgVars, procVars, runVars, nextId, reload>>

\* The handler's next store call fails, because the client went away or because
\* the database does, and it returns.
Disconnect(c) ==
  /\ Up /\ req[c].pc \in {"insert", "cancel", "notify"}
  /\ req' = [req EXCEPT ![c] = NoReq]
  /\ UNCHANGED <<dbVars, cfgVars, procVars, runVars, nextId, reload>>

\* pauseQueue, resumeQueue: the queue must be configured.
SetPaused ==
  /\ Up
  /\ \E q \in config : paused' = [paused EXCEPT ![q] = ~@]
  /\ UNCHANGED <<jobs, outbox, cfgVars, procVars, runVars, nextId, reload, req>>

-----------------------------------------------------------------------------
(* Queue reload: internal/executor/reload.go *)

NoReload == [pc |-> "idle", buf |-> {}, todo |-> {}, q |-> {}, ids |-> {}]
ReloadPcs == {"idle", "compare", "record", "swap", "select", "update", "notify"}
ReloadState == [pc : ReloadPcs, buf : SUBSET Queues, todo : SUBSET Queues, q : SUBSET Queues,
                ids : SUBSET JobIds]

\* The file is edited; a file without queues does not parse.
EditFile ==
  /\ bounds.edits < MaxEdits
  /\ \E f \in SUBSET Queues \ {{}} : f # file /\ file' = f
  /\ bounds' = [bounds EXCEPT !.edits = @ + 1]
  /\ UNCHANGED <<dbVars, config, lastHash, absent, overlap, boot, stopping, runVars,
                 nextId, reload, req>>

\* ReloadIfChanged, by the poll or on SIGHUP; neither waits for the other.
ReadFile(g) ==
  /\ Up /\ reload[g].pc = "idle"
  /\ reload' = [reload EXCEPT ![g] = [NoReload EXCEPT !.pc = "compare", !.buf = file]]
  /\ overlap' = (overlap \/ \E h \in Loaders \ {g} : reload[h].pc # "idle")
  /\ UNCHANGED <<dbVars, file, config, lastHash, absent, procVars, runVars, nextId, req>>

\* Unchanged contents end the call.
Compare(g) ==
  /\ Up /\ reload[g].pc = "compare"
  /\ reload' = [reload EXCEPT ![g] = IF @.buf = lastHash THEN NoReload
                                     ELSE [@ EXCEPT !.pc = "record"]]
  /\ UNCHANGED <<dbVars, cfgVars, procVars, runVars, nextId, req>>

\* prev is the config now; todo is the queues of prev that disappear.
Record(g) ==
  /\ Up /\ reload[g].pc = "record"
  /\ lastHash' = reload[g].buf
  /\ reload' = [reload EXCEPT ![g].pc = "swap", ![g].todo = config \ reload[g].buf]
  /\ UNCHANGED <<dbVars, file, config, absent, overlap, procVars, runVars, nextId, req>>

ReloadSwap(g) ==
  /\ Up /\ reload[g].pc = "swap"
  /\ config' = reload[g].buf
  /\ absent' = absent \union (Queues \ reload[g].buf)
  /\ reload' = [reload EXCEPT ![g].pc = "select", ![g].buf = {}]
  /\ UNCHANGED <<dbVars, file, lastHash, overlap, procVars, runVars, nextId, req>>

\* FailQueued, first statement: the ids to report.  None, and it returns.
FailSelect(g) ==
  /\ Up /\ reload[g].pc = "select"
  /\ \/ /\ reload[g].todo = {}
        /\ reload' = [reload EXCEPT ![g] = NoReload]
     \/ \E q \in reload[g].todo :
          \/ /\ QueuedIn(q) = {} \/ stopping \/ "store" \in Faults
             /\ reload' = [reload EXCEPT ![g].todo = @ \ {q}]
          \/ /\ QueuedIn(q) # {} /\ ~stopping
             /\ reload' = [reload EXCEPT ![g] = [pc |-> "update", buf |-> {}, todo |-> @.todo \ {q},
                                                 q |-> {q}, ids |-> QueuedIn(q)]]
  /\ UNCHANGED <<dbVars, cfgVars, procVars, runVars, nextId, req>>

\* FailQueued, second statement: whatever is queued in the queue by now.
FailUpdate(g) ==
  /\ Up /\ reload[g].pc = "update"
  /\ \/ /\ ~stopping
        /\ jobs' = [j \in JobIds |-> IF jobs[j].st = "queued" /\ jobs[j].q \in reload[g].q
                                     THEN [jobs[j] EXCEPT !.st = "failed"] ELSE jobs[j]]
        /\ reload' = [reload EXCEPT ![g].pc = "notify", ![g].q = {}]
     \/ /\ stopping \/ "store" \in Faults
        /\ reload' = [reload EXCEPT ![g].pc = "select", ![g].q = {}, ![g].ids = {}]
        /\ UNCHANGED jobs
  /\ UNCHANGED <<outbox, paused, cfgVars, procVars, runVars, nextId, req>>

\* onFail: notifyJob for each id selected; a failure is only logged.
ReloadNotify(g) ==
  /\ Up /\ reload[g].pc = "notify"
  /\ \/ /\ reload[g].ids = {}
        /\ reload' = [reload EXCEPT ![g].pc = "select"]
        /\ UNCHANGED outbox
     \/ \E j \in reload[g].ids :
          /\ \/ ~stopping /\ NotifyJob(j)
             \/ (stopping \/ "store" \in Faults) /\ UNCHANGED outbox
          /\ reload' = [reload EXCEPT ![g].ids = @ \ {j}]
  /\ UNCHANGED <<jobs, paused, cfgVars, procVars, runVars, nextId, req>>

-----------------------------------------------------------------------------
(* Start-up, recovery and death: cmd/spool/main.go, Executor.Recover *)

Down == [pc |-> "down", ids |-> {}]
BootPcs == {"down", "recover", "notify", "up"}
BootState == [pc : BootPcs, ids : SUBSET JobIds]

LoadQueues ==
  /\ boot.pc = "down"
  /\ boot' = [pc |-> "recover", ids |-> {}]
  /\ config' = file
  /\ absent' = absent \union (Queues \ file)
  /\ UNCHANGED <<dbVars, file, lastHash, overlap, stopping, bounds, runVars,
                 nextId, reload, req>>

\* Mutant: recovery reports the running rows but leaves them running.
RecoverNothing ==
  /\ boot.pc = "recover"
  /\ boot' = [pc |-> "notify", ids |-> {}]
  /\ UNCHANGED <<dbVars, cfgVars, stopping, bounds, runVars, nextId, reload, req>>

\* RecoverRunning: every running row becomes interrupted.
RecoverRunning ==
  /\ boot.pc = "recover"
  /\ jobs' = [j \in JobIds |-> IF jobs[j].st = "running"
                               THEN [jobs[j] EXCEPT !.st = "interrupted"] ELSE jobs[j]]
  /\ boot' = [pc |-> "notify", ids |-> RunningJobs]
  /\ UNCHANGED <<outbox, paused, cfgVars, stopping, bounds, runVars,
                 nextId, reload, req>>

RecoverNotify ==
  /\ boot.pc = "notify"
  /\ \E j \in boot.ids :
       /\ NotifyJob(j) \/ ("store" \in Faults /\ UNCHANGED outbox)
       /\ boot' = [boot EXCEPT !.ids = @ \ {j}]
  /\ UNCHANGED <<jobs, paused, cfgVars, stopping, bounds, runVars,
                 nextId, reload, req>>

\* Mutant: recovery takes the queues from the file instead of from Depths.
OrphanedInFile == {q \in file \ config : QueuedIn(q) # {}}

\* The queues Depths reports that the config lacks.
Orphaned == {q \in Queues \ config : QueuedIn(q) # {}}

RecoverRemoved ==
  /\ boot.pc = "notify" /\ boot.ids = {}
  /\ \E q \in Orphaned :
       /\ jobs' = [j \in JobIds |-> IF j \in QueuedIn(q)
                                    THEN [jobs[j] EXCEPT !.st = "failed"] ELSE jobs[j]]
       /\ boot' = [boot EXCEPT !.ids = QueuedIn(q)]
  /\ UNCHANGED <<outbox, paused, cfgVars, stopping, bounds, runVars,
                 nextId, reload, req>>

\* NewReloader hashes the file again, then the goroutines start.
StartLoops ==
  /\ boot.pc = "notify" /\ boot.ids = {} /\ Orphaned = {}
  /\ boot' = [boot EXCEPT !.pc = "up"]
  /\ lastHash' = file
  /\ exec' = Idle
  /\ UNCHANGED <<dbVars, file, config, absent, overlap, stopping, bounds, current,
                 effects, nextId, reload, req>>

\* SIGINT or SIGTERM cancels the root context; the process is still alive.
Stop ==
  /\ Up /\ ~stopping
  /\ bounds.crashes < MaxCrashes
  /\ stopping' = TRUE
  /\ UNCHANGED <<dbVars, cfgVars, boot, bounds, runVars, nextId, reload, req>>

\* The process dies, at the end of a shutdown or by a crash: memory is lost,
\* the database and the file are not.
Die ==
  /\ boot.pc # "down"
  /\ bounds.crashes < MaxCrashes
  /\ bounds' = [bounds EXCEPT !.crashes = @ + 1]
  /\ boot' = Down
  /\ stopping' = FALSE
  /\ exec' = Off
  /\ current' = NoCurrent
  /\ reload' = [g \in Loaders |-> NoReload]
  /\ req' = [c \in Clients |-> NoReq]
  /\ UNCHANGED <<dbVars, cfgVars, effects, nextId>>

-----------------------------------------------------------------------------
Init ==
  /\ jobs = [j \in JobIds |-> Blank]
  /\ outbox = [j \in JobIds |-> <<>>]
  /\ paused = [q \in Queues |-> FALSE]
  /\ file \in SUBSET Queues \ {{}}
  /\ config = file
  /\ lastHash = file
  /\ absent = Queues \ file
  /\ overlap = FALSE
  /\ nextId = 0
  /\ boot = Down
  /\ stopping = FALSE
  /\ exec = Off
  /\ current = NoCurrent
  /\ reload = [g \in Loaders |-> NoReload]
  /\ req = [c \in Clients |-> NoReq]
  /\ effects = {}
  /\ bounds = [crashes |-> 0, edits |-> 0]

Loop == Pick \/ Claim \/ ExecutorExits
Run == \/ PrepareRun \/ LockAbandoned \/ StartClaude \/ ClaudeExits
       \/ ReadCancelled \/ Unwind \/ Decide \/ Requeue \/ Finish
Wait == ReadGate \/ AcquireLock \/ HelperLetsGo
Process == ToolCall \/ StreamFails \/ HelperHolds
Reload(g) == \/ ReadFile(g) \/ Compare(g) \/ Record(g) \/ ReloadSwap(g)
             \/ FailSelect(g) \/ FailUpdate(g) \/ ReloadNotify(g)
Boot == LoadQueues \/ RecoverRunning \/ RecoverNotify \/ RecoverRemoved \/ StartLoops
Handler(c) == Insert(c) \/ CancelRunning(c) \/ CancelQueued(c) \/ CancelNotify(c)
Request(c) == Submit(c) \/ RetryJob(c) \/ ReplyJob(c) \/ CancelJob(c) \/ Disconnect(c)
Environment == SetPaused \/ EditFile \/ Stop \/ Die

Next == \/ Loop \/ Run \/ Wait \/ Process \/ Boot \/ Environment
        \/ \E g \in Loaders : Reload(g)
        \/ \E c \in Clients : Handler(c) \/ Request(c)

Spec == Init /\ [][Next]_vars

-----------------------------------------------------------------------------
(* Properties *)

\* Every table and every goroutine's local state keeps its type.
TypeOK ==
  /\ jobs \in [JobIds -> Row]
  /\ outbox \in [JobIds -> Seq(Terminal)]
  /\ paused \in [Queues -> BOOLEAN]
  /\ file \in SUBSET Queues /\ config \in SUBSET Queues /\ lastHash \in SUBSET Queues
  /\ absent \in SUBSET Queues /\ overlap \in BOOLEAN
  /\ nextId \in JobIds \union {NoId}
  /\ boot \in BootState
  /\ stopping \in BOOLEAN
  /\ exec \in ExecState
  /\ current \in CurrentState
  /\ reload \in [Loaders -> ReloadState]
  /\ req \in [Clients -> ReqState]
  /\ effects \in SUBSET JobIds
  /\ bounds \in [crashes : Nat, edits : Nat]

\* A job whose process made a tool call never waits in a queue again, so its
\* side effects are never repeated behind a human's back, whatever crashes,
\* cancellations or blocking failures happen (Recover, runJob's requeue).
NeverRepeated == \A j \in effects : jobs[j].st # "queued"

\* The same, as far as the Collector saw the whole stream.
AtMostOnce == "stream" \notin Faults => NeverRepeated

\* While the process is up, a running row is the one the executor is working
\* on: no row is left running with nobody to finish it, and no two run at once
\* (Claim, finish, Recover).  A result that could not be written is the exception.
RunningIsOwned ==
  "store" \notin Faults /\ Up =>
    \A j \in RunningJobs : exec.pc \in Owning /\ exec.id = j

\* Executor.Cancel can only ever flag a job that is running under the claude
\* lock: current names the executor's own job, whose row is running.
CurrentIsRunning ==
  current.id # NoId =>
    exec.pc \in Inside /\ exec.id = current.id /\ jobs[current.id].st = "running"

\* A terminal status never changes, although finish writes it by id alone and
\* cancel, reload and recovery write the same column concurrently.
TerminalIsFinal ==
  [][\A j \in JobIds : jobs[j].st \in Terminal => jobs'[j].st = jobs[j].st]_vars

\* A job is announced with the status it ends in, whichever of finish, cancelJob,
\* reload and recovery announces it, and at most once.  A reload can announce what
\* cancelJob or finish announces too only if its queue was removed and brought back,
\* by a poll and a SIGHUP that overlapped.
EventMatchesStatus ==
  \A j \in JobIds :
    \/ outbox[j] \in {<<>>, <<jobs[j].st>>}
    \/ overlap /\ jobs[j].q \in absent /\ outbox[j] \in Seq({jobs[j].st})

\* The transactional outbox: a job a run finished has its event, as long as its
\* queue was never absent from the config (FinishWithDeliveries).
FinishedHasEvent ==
  \A j \in JobIds :
    jobs[j].st \in {"succeeded", "failed", "needs_input"} /\ jobs[j].q \notin absent
      => outbox[j] = <<jobs[j].st>>

\* When the loops start, recovery has left no running row and no job waiting in
\* a queue the config lacks, even if an earlier recovery died half-way.
RecoveryReconciles ==
  [][~Up /\ Up' => \A j \in JobIds : /\ jobs[j].st # "running"
                                     /\ jobs[j].st = "queued" => jobs[j].q \in config]_vars

\* Two submissions with one idempotency key make one job, whatever became of
\* it meanwhile (Insert).
KeysUnique ==
  \A i, j \in JobIds :
    /\ i # j /\ Exists(i) /\ Exists(j)
    /\ jobs[i].q = jobs[j].q /\ jobs[i].key = jobs[j].key
    => jobs[i].key = NoKey

\* A retry or reply always follows a job that ended in a retryable status and
\* still has it; a resumed session is that of a needs_input parent (NewChild).
ChildrenOfRetryable ==
  \A j \in JobIds : Exists(j) /\ jobs[j].par # NoId =>
    LET p == jobs[jobs[j].par]
    IN /\ p.st \in Retryable /\ p.q = jobs[j].q
       /\ jobs[j].resume => p.st = "needs_input" /\ p.sess

-----------------------------------------------------------------------------
(* Liveness *)

\* Every goroutine that can take its next step does: Go's scheduler, the queue
\* timeout with SIGKILL behind it, and a supervisor that restarts the process.
\* Nothing is assumed of Wait, where the step depends on others, nor of when the
\* file is read.
Fairness ==
  /\ WF_vars(Loop) /\ WF_vars(Run) /\ WF_vars(Boot)
  /\ \A g \in Loaders : WF_vars(reload[g].pc # "idle" /\ Reload(g))
  /\ \A c \in Clients : WF_vars(Handler(c))
  /\ WF_vars(stopping /\ Die)

FairSpec == Spec /\ Fairness

\* The executor waits for ever at its step pc.
StuckAt(pc) == <>[](exec.pc = pc)

\* A running job does not stay running: it finishes, is requeued, or is
\* recovered as interrupted after a crash.  Only two things can keep it running:
\* somebody else who never gives the claude lock back, and a helper of the run that
\* never closes its stderr.
RunningEnds ==
  \/ StuckAt("lock") \/ StuckAt("held")
  \/ \A j \in JobIds : jobs[j].st = "running" ~> jobs[j].st # "running"

\* A queued job of a queue that stays configured and is not kept paused reaches a
\* terminal status, unless the executor is stopped for ever by the lock, by a helper,
\* or by a gate that nobody opens.
QueuedSettles ==
  (\A q \in Queues : <>[](q \in config /\ ~paused[q])) =>
    \/ StuckAt("idle") \/ StuckAt("lock") \/ StuckAt("held")
    \/ \A j \in JobIds : jobs[j].st = "queued" ~> jobs[j].st \in Terminal

-----------------------------------------------------------------------------
(* What comments in the code claim and the code does not do *)

\* Executor.Cancel "report[s] whether it took effect": a cancellation it
\* accepted is in the result execute hands to runJob.
AcceptedCancelIsRecorded ==
  [][ExecStep("unwind") /\ exec'.pc = "decide" /\ current.cancelled
       => exec.res.st = "cancelled"]_vars

\* cancelJob refuses a job it read as running only because "it finished
\* between the read and the cancel".
RefusedMeansEnded ==
  [][\A c \in Clients : req[c].pc = "stop" /\ req'[c].pc = "refused"
       => jobs[req[c].id].st # "running"]_vars

\* A queue that disappeared does not leave work queued: once the reload that
\* removed it is over and no request is in flight, nothing waits in it.
NoWorkStranded ==
  Up /\ (\A g \in Loaders : reload[g].pc = "idle") /\ (\A c \in Clients : req[c].pc = "idle")
    => \A j \in JobIds : jobs[j].st = "queued" => jobs[j].q \in config

\* "A finished job always has its event queued", every queue subscribing; a job a
\* reload fails never has, as its queue's receivers went with its definition.
FinishAlwaysHasEvent ==
  \A j \in JobIds : jobs[j].st \in {"succeeded", "failed", "needs_input"} => outbox[j] # <<>>

=============================================================================
