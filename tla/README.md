# A verification project for spool

`spool` (`src/backend`) is a Go daemon that runs prompts through the `claude`
command line tool, one job at a time, on behalf of HTTP clients. Jobs wait in
named queues, results go out as signed webhooks, and a human can pause, resume,
cancel, retry, reply and log in from a phone. One process owns one SQLite file
through a single connection; everything else is goroutines in that process.

This directory holds TLA+ models of that process, the TLC configurations that
check them, and TLAPS proofs about them. `PROJECT.json` is the index:
components, runs, mutants, the map from definitions to source lines, findings,
hazards and theorems.

To repeat the work: `tlc -workers 2 -config X.cfg M` for each run of
`PROJECT.json`, and `tlapm M.tla` for each module `M` whose name ends in `Proofs`.

## Inventory

Paths are under `src/backend/internal` unless they start with `cmd`.

| component | state it keeps | operations | what makes it correct |
|---|---|---|---|
| executor loop and run (`executor/executor.go`, `run.go`) | `current` (id, cancelled), the run it owns | step, pick, runJob, execute, finish, block, Cancel, Recover, notifyJob | side effects at most once; a running row always has an owner; a result and its event are written together |
| jobs table (`store/jobs.go`, `job.go`) | `jobs` rows | Insert, Claim, Requeue, Cancel, RecoverRunning, FailQueued, FinishWithDeliveries | a terminal status is final; one job per idempotency key |
| job API (`api/jobs.go`, `queues.go`) | one request each | submit, cancel, retry, reply, pause, resume | decisions on a row that was read earlier are guarded by the write |
| queue reload (`executor/reload.go`) | `lastHash`, the QueueSet | ReloadIfChanged, from a poll and from SIGHUP | every lasting edit is adopted; jobs of a removed queue end |
| start-up, recovery, shutdown (`cmd/spool/main.go`) | none of its own | LoadQueues, Recover, NewReloader, start loops, signals | loops start on a reconciled table |
| executor gate (`store/runtime.go`) | `executor_state`, `queue_runtime` | SetExecutorState, SetQueuePaused, SetRRCredits | shut while the session is expired, and reopened afterwards |
| auth manager (`auth/manager.go`) | credential state, time of the last check | Probe, Keepalive, observeExpired, transitionToOK | one `auth.required` and one `auth.restored` for each incident |
| interactive login (`auth/login.go`) | `attempt`, a child, its TTL, the claude lock | StartLogin, SubmitCode, CancelLogin, finishAttempt | the child runs only under the lock; the lock always comes back |
| claude lock (`claudecli/lock.go`) | a mutex and its holder's name | Acquire, TryAcquire, release | mutual exclusion; an abandoned wait leaks nothing |
| webhook sender and outbox (`webhook/sender.go`, `store/outbox.go`) | `outbox` rows | Claim, post, mark delivered, retry or dead | at least once; every row settles |
| scheduler (`sched/sched.go`) | `rr_credit` per queue | Pick | proportional shares, no starvation |
| event routing (`event/notifier.go`) | receivers, SSE subscribers with a channel each | Deliveries, Emit, Publish, Subscribe | the outbox holds exactly the committed events for exactly their receivers; a slow subscriber costs only itself |
| event stream (`api/events.go`) | one connection | streamEvents | a client sees, in order, what its token allows |
| classifier (`claudecli/classify.go`, `stream.go`) | counters of one stream | Collector, capability check, Classify | success is earned; tool calls are counted; what `claude` said is kept |
| queue definitions (`config/queue.go`, `template.go`) | the texts of `queues.yaml` | applyDefaults, validate, hash, ValidateArgs, Render | a prompt is rendered with the arguments its definition asks for |
| pruner (`executor/prune.go`) | transcripts on disk | Prune | no transcript outlives a retention that stays in force |
| `config.yaml`, `claude` invocation, HTTP plumbing, metrics | little or none | | see "Not modelled" |

How they interact:

* The executor, the HTTP handlers, the reloader and recovery write the same
  `jobs` rows. The database connection serialises *statements*; everything a
  goroutine does between two statements may be overtaken.
* The executor, keep-alives and logins share the claude lock. A job waits for
  it *after* its row says `running`.
* The executor (`block`), the auth manager and the operator write the one
  `executor_state` row; the executor reads it before each pick.
* Results and most job events enter the outbox in the transaction that ends
  the job; cancellations and recoveries enter theirs in a separate one.
* The reloader swaps the queue set under the executor, the API, the pruner and
  the notifier, which each look a queue up when they need it: a job is
  validated, rendered and pruned under three definitions that may differ.
* Inside one run the reader of stdout, the watchdog and `execute` share the
  process, its pipes and three channels.
* Every emitter publishes to the live stream first and commits to the outbox
  afterwards.

What is hard here: a crash between any two statements; a decision on a row, a
gate or a config that was read before; goroutines that finish the same login;
contexts that end while a goroutine waits for a lock, or inside a handler; a
webhook answer that is lost; a timeout or a signal while the result line is on
its way; a helper process that keeps a pipe open. The 40 hazards of `PROJECT.json` place each of
them at its line.

## The modules

| module | models | composed with |
|---|---|---|
| `Spool` | the life of a job: jobs table, outbox, executor, handlers, reloader, recovery | abstracts the gate, the lock and a held `cmd.Wait` to steps that may never come |
| `Gate` | `executor_state` and the credential state machine | takes the lock as the mutex of `Mutex` |
| `Execute` | one run of `claude`: reader, watchdog, `execute`, Collector and Classify | implements `Process` |
| `Process` | what a run is to the rest of the service, the view `Spool` takes of it | |
| `ClaudeLock`, `Mutex` | the context-aware lock and what it promises | `ClaudeLock` implements `Mutex`, also under the logins of `Login` |
| `Login` | login attempts and the goroutines that may finish one | extends `ClaudeLock`: logins, jobs and keep-alives are its callers |
| `Delivery` | the webhook sender draining the outbox | |
| `Events` | Notifier, Broker and the live stream | extends `Delivery`: what emitters commit is what the sender drains |
| `Sched` | smooth weighted round-robin | refines the free choice of `Pick` in `Spool` |
| `QueueFile` | what a text of `queues.yaml` means: defaults, validation, hash, arguments, placeholders | |
| `Reload` | how that text reaches memory | extends `QueueFile`; `Spool` has what a reload does to jobs in full |
| `Definitions` | jobs and transcripts under changing definitions, and the pruner | extends `Reload` |
| `SpoolProofs`, `JobProofs` | theorems about `Spool` | `SpoolProofs` extends `Spool`, `JobProofs` extends `SpoolProofs` |
| `ExecuteProofs`, `GateProofs`, `LoginProofs`, `EventsProofs`, `DefinitionsProofs`, `SchedProofs` | theorems about the module of the name and those it extends | each extends that module |

The `MC...` modules only name model values and define the texts, results and
receivers an instance uses, and a symmetry set; the `.cfg`
files give every constant its value and replace no definition.

### Spool

One action is one store call (statement or transaction), one access to
`Executor.current` under its mutex, or one thing the outside does. The
executor's program counter follows the code:

    idle -> pick -> claim -> claimed -> lock -> start -> running [-> held]
         -> exited -> unwind -> decide -> requeue | finish -> idle

`ReadGate`, `Pick` and `Claim` are `step`; `PrepareRun` is the part of
`runJob` before the lock (its early failures go straight to `finish`);
`AcquireLock` or `LockAbandoned` is `lock.Acquire` with the job's context;
`StartClaude`, `ToolCall`, `StreamFails` and `ClaudeExits` are `execute`;
`HelperHolds` and `HelperLetsGo` are a run whose process was reaped while a
helper keeps its stderr, so that `cmd.Wait` does not return (`Execute` has this
in detail);
`ReadCancelled` and `Unwind` are its end and its deferred calls; `Decide`,
`Requeue` and `Finish` are the three ways on from a verdict. A verdict is any
value `Classify` can return; of the error kinds only the classes `runJob`
branches on are kept.

A request is `idle`, or between two of its store calls. `Submit`, `RetryJob`
and `ReplyJob` read and validate; `Insert` writes, and returns the existing row
when the key is taken. `CancelJob` reads the row and branches;
`CancelRunning` is `Executor.Cancel`; `CancelQueued` the guarded update;
`CancelNotify` the notification after it. `Disconnect` ends the request's
context before its next call.

`ReadFile`, `Compare`, `Record`, `ReloadSwap`, `FailSelect`, `FailUpdate` and
`ReloadNotify` are one call of `ReloadIfChanged`. `Loaders` are the goroutines
that make such calls, the poll and SIGHUP; nothing in the code keeps them
apart, and nothing here does. `EditFile` only writes files `ParseQueues`
accepts (broken files are in `Reload`). `LoadQueues`,
`RecoverRunning`, `RecoverNotify`, `RecoverRemoved` and `StartLoops` are
start-up. `Stop` is a signal that cancels the root context; `Die` is the end of
the process at any moment, which keeps the database and the file and nothing
else.

`effects`, `absent` and `overlap` are history variables: which jobs' processes
made a tool call, which queues some adopted config lacked, and whether two
calls of `ReloadIfChanged` were ever under way at once. With `"store"` in
`Faults` any store call may fail and the code's error path is taken; with
`"stream"` reading the stream may stop while the process goes on.

### Gate

One executor, the manager's loop, `POST /v1/auth/check` requests, one login
and operator requests. Steps are store calls and critical sections of
`Manager.mu`. `cred` is the real session (valid, refused by the server, or
gone); `Events` says what the world does (the session expires, is repaired elsewhere, a login is
completed, a usage limit is hit, a request's context is cut). `credential_mode`
is `login`; with a long-lived token the manager is idle and only the executor
and the operator touch the gate. What `claude` reports is taken to be right.
`attempt` is `Manager.attempt`: a login that reaches its TTL before its URL was
published is published all the same (`PublishLogin` at `"late"`), nobody clears
it, and `keepaliveDue` then answers no; `KeepaliveOn` is a positive
`keepalive_interval`. `Init` is every gate row a restart can find.

### Execute and Process

`Execute` starts where `cmd.Start` has succeeded. The process is external: it
prints an init line or none, then tool calls and rate-limit notes, then at most
one result, and exits when it likes; only SIGKILL binds it. A tool may leave a
helper in the process group that keeps stdout, stderr or both open. The reader
(`Scan`, `StreamEnds`, `StreamFails`) feeds the Collector and checks the
capabilities once; the watchdog (`Bark`, `Escalate`, `Heel`) is the goroutine
with the timer and `signalSequence`; `Drain`, `Reap`, `WaitReturns`,
`ReadCancelled` and `ReadTimedOut` are `execute`. `Reap` and `WaitReturns` are
the two halves of `cmd.Wait`, which reaps the process, closes stdout, and then
waits for the copy of stderr; it returns the context's error if the context was
cancelled first, even when the process exited with 0. `Classify` keeps the
order of the code's tests; a text is reduced to what the patterns find in it.

`Process` is the part of `Spool` that stands for a run (`ToolCall`,
`StreamFails`, `ClaudeExits`, `ReadCancelled`, a verdict), as a specification
of its own. `ImplementsProcess` shows that `Execute` behaves like it, so that
what `Spool` and its proofs assume about a run is what the goroutines do. Under
the mapping a tool call happens when it is counted, or, should the stream
break, at that moment.

### ClaudeLock and Login

`ClaudeLock` has every goroutine of `Acquire`: the caller, the one that waits
for the mutex, and the one that hands it back after the caller left. `Login`
runs on top of it. A `StartLogin` request is a caller of the lock that gives up
after 5 seconds (`StartBusy`), and its attempt has a child, a TTL, what the
child printed, and the goroutines that may finish it. `finishAttempt` is
several steps: set `finished`, kill the child, release the lock, clear the
pointer. Each request makes at most one attempt.

### Delivery and Events

`Delivery` counts time in units of the first backoff; `due` is the time left
until `next_at`. A post may reach the receiver or not, and its answer may come
back or not; the write that marks a row may fail (`MarkFails`), which leaves it
due at once. `maxAttempts` is computed as the code does, by adding capped
backoffs until the window is used up, at most `MaxTries` of them (1000 in the
code). The history variable `tried` counts the time a row has been pending
since its first failed attempt was recorded.

`Events` puts the emitters in front of it. An emitter decides to tell something
(`Begin`), calls `Deliveries` (publish, then route) and commits or fails to.
Subscribers come, read at their own pace and leave; a channel holds `Buffer`
events (32 in the code).

### Sched

`Sched` computes credits as `sched.Pick` does, with whole-number weights and
queues numbered in the order of their names. `NotStarved` bounds the picks a
candidate can lose in a row: times its weight, they are at most
`2 * (queues - 1) * greatest weight`. Twice the total weight, which holds for
the three queues of `MCSched`, is not a bound: with weights 1, 1, 1 and 10 and
candidates chosen for it, a light queue loses 28 picks in a row. With equal
weights the bound is `2 * (queues - 1)`, one more than what can happen.

### QueueFile, Reload and Definitions

A text of `queues.yaml` is a function from names to definitions; `ParseQueues`
applies the defaults, validates, and refuses the whole text if one definition
is wrong. A template is the sequence of its placeholders; as in `templateRefs`,
only the first of them is checked for its form. An argument's value is a
representative of each kind the types tell apart, with the empty string among
them. `Reload` makes each access to the Reloader's memory a step, because
the poll and the SIGHUP goroutine use it without a lock; the history variable
`raced` says that an edit fell between the two reads of start-up, or that the
two goroutines overlapped, and no call since has taken in a changed file by
itself. `Definitions` adds the steps of a job that look
at a definition (`submitJob` validates and records the hash, `runJob` renders,
`FailQueued` ends the jobs of a removed queue) and the pruner, whose pass works
on a snapshot of the queues, and in which a read or a removal may fail.

## What the runs check

Passing runs. Every property listed has a mutant in `PROJECT.json`: a
plausible bug in the mapped code under which the same run fails. Every module
has a type invariant; `Spool`'s is proved, and that of `Definitions`, which says
that the running config is always one that parsed, is part of its run. The
others hold in the same runs and are listed there only where they say more than
types.

| run | instance | shows |
|---|---|---|
| `MCSpoolJob` | 1 queue, 2 jobs, 1 client, 1 death, fair | side effects are not repeated (`AtMostOnce`), no orphaned row (`RunningIsOwned`), `Cancel` only flags a job that runs (`CurrentIsRunning`), sound parents (`ChildrenOfRetryable`), final statuses (`TerminalIsFinal`), and every job ends unless the gate, the lock or a helper stops the executor for ever (`RunningEnds`, `QueuedSettles`) |
| `MCSpoolClients` | 2 clients, 2 jobs, 2 priorities, 1 key | `KeysUnique`, and events that match under racing requests (`EventMatchesStatus`) |
| `MCSpoolFaults` | 2 queues, 1 job, poll and SIGHUP, 2 edits, 2 deaths, failing store and stream | reloads, also overlapping ones, that remove a queue and bring it back under submissions, cancellations, a run and a recovery: no path, no error path either, announces a job with another status than it ends in, or twice unless its queue was removed and reloads overlapped (`EventMatchesStatus`), a run's result never goes without its event (`FinishedHasEvent`); `RecoveryReconciles`: the loops start on a reconciled table even if an earlier recovery died half-way |
| `MCGateSafe` | a check request, an operator, expiry, login, 1 restart | `ExpiryIsAnnounced` |
| `MCGateLive` | every event, every initial row, fair | `GateReopens`, if a keep-alive is configured and no dead attempt stays published |
| `MCLogin` | 2 login requests, 1 job, 1 submitter, 1 abandoned wait | `HolderIsTrue`, `Implements` (refinement of `Mutex`), `WaitEnds`, `ChildHoldsLock`, `AttemptEnds` |
| `MCEvents` | 2 emitters, 2 events, 2 clients with buffers of 1, 1 receiver, batches of 1, 1 failing mark or death | the outbox is exact whatever commits, fails or dies (`OutboxIsExact`); a client that keeps up misses nothing and sees nothing it may not (`LiveStreamIsFaithful`); no client holds up an emitter (`EmissionEnds`); delivery is at least once and ends (`DeliveredWasReceived`, `BatchIsFresh`, `EventSettles`); a receiver is not given up on while more than the last backoff of the window is left (`DeadWasTried`) |
| `MCSched` | 3 queues, weights 1 to 3, steady or any candidates | `Proportional`, `CreditsBalance`, `NotStarved` |
| `MCDefinitions` | 3 valid texts, a broken and a missing one, poll and SIGHUP, 3 edits, 1 death, 1 job | a lasting edit is adopted unless two reads raced over it (`EditIsAdopted`); what was required at submission is blank in a prompt only if it was given as "" (`RenderedAsValidated`); no transcript stays for ever (`TranscriptGoes`) |
| `MCExecute` | 1 skill, 1 connector, 9 results, a helper, a pipe of 2 lines, a stream that may break | `ToolsAreCounted`, `SuccessIsEarned`, `OutcomeIsKept`, `RunEndsUnlessHeld`, and the refinement of `Process` |

Why the bounds are enough to be interesting. Two jobs let a child follow its
parent and let one job wait while another runs; the interplay of more than two
jobs goes through the head of a queue only. Two deaths let a recovery be
interrupted and repeated. An edit removes a queue under its jobs, or brings
one back, while the process runs or is down. Two edits take a queue away and
bring it back under two overlapping reloads; `Bound` of `MCSpool` explores
those without deaths and paused queues, and deaths with one edit and reloads
one after the other: a death ends every call and its memory with it. `Lasting`
keeps the other queue in the file. The theorems cover every mix. One claim that may end in a
blocking failure (`MaxRuns`) gives a requeue and a second run, and
`maxCapabilityRetries = 2` both sides of that limit (`MCSpoolClients` leaves
requeues to the other two runs). Two clients are enough for
each pair of requests to race. In `Events`, a
batch smaller than the number of rows lets a retry hold up a new row, a window
of 3 with a cap of 2 gives a row two attempts and lets the backoff reach its
cap, a limit of 3 tries is not reached (the theorem covers it), one fault
(`MaxFaults`) is a mark that fails or a death, and a buffer of 1 fills at the
first event. In `Login`, two logins and a job allow a holder, a waiter, and a waiter that leaves. In `Execute`, the
results are a clean one with each outcome and one for each way a result is
overruled; a pipe of 2 lines lets the process be ahead of the reader and block.
In `Definitions`, the texts make an argument required, remove a queue, change a
retention, use the default and keep transcripts for ever, and one has a
malformed placeholder that is not the first. The argument is optional with a
format in one and a required plain string in another, which takes "". Two
edits give away-and-back; a third, in behaviours without jobs, lets the file
return to a text that a raced reload recorded and did not adopt (`Bound` of
`MCDefinitions`, where SIGHUP also acts in behaviours without jobs only).

Deadlock is checked in every passing run except three, where the system may
really stop: in `MCEvents` when every row is settled and no more events come,
in `MCExecute` when the run is over, and in `MCDefinitions` when the process is
down and the file it would start from is broken and stays so.

### Fairness

* `Spool`: weak fairness of the executor's loop and run, of the reloader, of
  start-up and of handlers that have begun: Go schedules every runnable
  goroutine; a process ends because of the queue timeout with SIGKILL behind it;
  a supervisor restarts the service. Nothing is assumed of `Wait`: the gate may
  stay shut, the claude lock may stay taken and a helper may keep stderr, and
  `RunningEnds` and `QueuedSettles` name these (`StuckAt`) as the only ways in
  which a job waits for ever. (`GateReopens`, `WaitEnds` and `AttemptEnds` say
  when the gate and the lock come free.) New requests, edits, pauses, new
  reloads, signals and crashes are not fair. `QueuedSettles` has as a premise
  that the queues stay configured and are not kept paused, and `MaxRuns`
  assumes that a job does not meet auth or usage failures for ever.
* `Gate`: weak fairness of each goroutine's next step and of time. Strong
  fairness where something is only tried now and then: the manager's tick (not
  every tick falls into a login), `Acquire` (the lock is free again and again),
  and a keep-alive or local probe with a working session, which succeeds sooner
  or later. That a keep-alive is configured and that `Manager.attempt` is nil
  again and again are premises of `GateReopens`, not fairness: the code does
  not guarantee the second.
* `Login` and `ClaudeLock`: strong fairness of locking, because `sync.Mutex`
  hands over to a starving waiter; goroutines and the TTL timer make progress
  and the other users of claude finish. Nobody has to type a code.
* `Events`: emitters run, the sender runs, time passes, the process is started
  again. No receiver has to answer and no client has to read.
* `Execute`: the three goroutines run and their timers fire. The process, its
  helpers and the operator owe nothing.
* `Definitions`: the poll's and the pruner's tickers tick and the process is
  started again. Strong fairness of a day passing (no day passes inside a pass,
  which reads the clock once) and of a queue's turn in a pass (some pass gets
  to it without an error). Nobody has to send SIGHUP.

### Where the code does not do what a comment says

Two runs that TLC must find violated; `PROJECT.json` quotes the lines.

| run | property | what happens |
|---|---|---|
| `MCGateResume` | `ExpiredMeansBlocked` | pause and then resume, or a resume that read the row before the expiry, opens the gate while the session is known to be expired (`api/queues.go:152-165`). The same happens without an operator, with `Operators = {}`, `Checks = {}` and `Events = {"expire", "restore"}`: `step` lifts a usage block it read before the expiry (`executor/executor.go:259-263`) |
| `MCDefinitionsHash` | `HashIsTrue` | the hash recorded with a job is that of the definition at submission; a reload before the job starts makes it run under another one, which no hash names (`api/jobs.go:66`, `config/queue.go:98-99`) |

The modules state the following comments as well. None of them holds; each can
be repeated by putting the property into a copy of the named configuration,
with the changes given.

| property | configuration | what happens |
|---|---|---|
| `AcceptedCancelIsRecorded` (`Spool`) | `MCSpoolJob`, 1 job | a cancel answered 202 after `wasCancelled` was read, or before the process started, is not recorded (`executor/executor.go:138-141`) |
| `RefusedMeansEnded` (`Spool`) | `MCSpoolJob`, 1 job | a job that is `running` but waits for the lock, or whose result is not yet written, is refused because "it finished" (`api/jobs.go:204`) |
| `NoWorkStranded` (`Spool`) | `MCSpoolFaults`, no faults | a submission or a requeue lands in a removed queue after `FailQueued` swept it (`executor/reload.go:92`) |
| `FinishAlwaysHasEvent` (`Spool`) | `MCSpoolFaults`, no faults | a job whose queue left the config while it ran finishes without an event (`executor/run.go:125-126`); a job that a reload or recovery fails with `queue_removed` has none, because `Deliveries` finds no queue to take the receivers from (unless an overlapping reload brought it back), although "a webhook fires" (`docs/design/backend-design-doc.md:229`, `executor/reload.go:113-114`) |
| `NeverRepeated` (`Spool`) | `MCSpoolFaults`, only `"stream"` | tool calls after the stream broke are not counted, and the job is requeued (`executor/run.go:372`, `executor.go:160-161`) |
| `UsageAnnounced` (`Gate`) | `MCGateResume`, `Events = {"usage"}` | a usage block that ended by time stays in the row, so the next incident is not announced (`executor/run.go:166-178`) |
| `RequiredOncePerIncident` (`Gate`) | `MCGateResume` | with a login that looks good locally but is refused by the server, `auth.required` is repeated (`auth/manager.go:362-363`) |
| `RestoredOnce` (`Gate`) | `MCGateResume`, `Events = {"login"}` | a login and a keep-alive that finish together both send `auth.restored` (`auth/manager.go:335-337`) |
| `LoginAnnouncesRestored` (`Gate`) | `MCGateResume`, `Events = {"login"}` | after a pause replaced `blocked_auth`, a completed login sends no `auth.restored` (`auth/login.go:224-226`) |
| `PointerIsLive` (`Login`) | `MCLogin` | an attempt that expired before it was published stays in `Manager.attempt` and switches the keep-alive off (`auth/login.go:126`, `manager.go:195`) |
| `ChildGoneBeforeProbe` (`Login`) | `MCLogin` | `claude auth status` runs beside a login child that is not dead yet (`auth/login.go:213-214`, `302`) |
| `RunEnds` (`Execute`) | `MCExecute`, `HelperFds = {{"stderr"}}` | a helper that keeps stderr open holds `cmd.Wait`, and the only executor slot, for ever once `claude` itself was reaped: `Getpgid` finds no group to signal any more (`executor/run.go:394-396`, `375`) |
| `NoEditIsMissed` (`Reload`) | `MCDefinitions`, `MaxEdits = 1`, `MaxCrashes = 0` | an edit between `LoadQueues` and `NewReloader` is hashed as seen and not loaded until the file changes again; an overlapping SIGHUP and poll also keep the older definitions with the newer hash (`executor/reload.go:32-33`, `39`, `88`) |
| `RetriedForWindow` (`Delivery`) | `MCEvents` | the backoff after the last attempt counts towards the window and is never waited for: with the window of 24 hours the 32 attempts span 84310 s of 86400 s, although a receiver "retries for 24 hours" (`README.md:40-42`, `webhook/sender.go:227-237`) |
| `NeverBlank` (`Definitions`) | `MCDefinitionsHash` | a job accepted while an argument was optional runs with the prompt of a definition that requires it, rendered empty (`config/queue.go:210-211`) |

Smaller disagreements the models show without a property of their own:

* the live stream shows events of results whose transaction then fails
  (`event/notifier.go:54`, against `executor/run.go:125-126`);
* "service events carry no queue" (`api/events.go:58-59`), but
  `queue.auto_paused` sets one, so a token of another queue does not see it;
* service events "always go to every receiver" (`event/event.go:25-26`), but a
  receiver's own list filters them as well (`event/notifier.go:69`);
* a shutdown makes `cmd.Wait` return the context's error, so a run that had
  already succeeded is recorded as a `cli_error` (`executor/run.go:375`);
* an init line that cannot be decoded is skipped, and with it the capability
  check (`claudecli/stream.go:228-231`, against `classify.go:182-185`);
* a successful result whose text mentions a rate limit counts as
  `usage_limit` (`claudecli/classify.go:331`);
* a poll and a SIGHUP that overlap (`cmd/spool/main.go:152-177`) can announce a
  cancelled job twice: one call selects it for `queue_removed`, a client cancels
  it, the other call restores the queue, and then both `cancelJob` and the first
  call enqueue `job.cancelled` (`executor/reload.go:97-110`);
* "catch a malformed placeholder rather than passing it to Claude verbatim"
  (`config/template.go:22`) holds of the first placeholder only;
* a required argument of type string without format or enum may be "", and the
  prompt is rendered with nothing in its place (`config/template.go:97-115`);
* placeholders in `system_prompt` are validated, and never substituted
  (`config/queue.go:212`, `claudecli/schema.go:96-101`);
* a row may be posted after its retry window, because only attempts are counted
  (`webhook/sender.go:144-147`).

## What is proved

Every invariant and every action property of the passing runs, and both
refinements, are theorems: they hold for all values of the constants that
satisfy the assumptions of the modules. The assumptions say that counts and
bounds are natural numbers, that distinguished values (`NoKey`, `Nobody`) are
not among the ordinary ones and the goroutines, check requests and operators of
`Gate` differ, that emitters, receivers and the queues of `Sched` are finitely
many, that a batch, a buffer, a backoff cap, a retry window, a pipe, a limit of
tries and a weight are positive, that the outbox has room for the events of an instance, and that
each text of `queues.yaml` gives its definitions the fields of `Queue` with
whole-number retentions. They are in the modules that declare the constants, and TLC
evaluates them on every run.

Each proof module states an inductive invariant, built from named parts, shows
by one lemma for each action (or for each group of actions that write the same
variables) that a step keeps it, and derives the properties from it. TLC
checked each invariant on the instances of the runs first.

### Spool (`SpoolProofs`, `JobProofs`)

* `TypeCorrect`: `Spec => []TypeOK`;
* `SideEffectsOnce`: `Spec => []AtMostOnce`, the program's central promise;
* `NoOrphanedRun`: `Spec => []RunningIsOwned`;
* `CancelTargetsRunning`: `Spec => []CurrentIsRunning`;
* `StatusFinal`: `Spec => TerminalIsFinal`;
* `OneJobPerKey`: `Spec => []KeysUnique`;
* `ChildFollowsParent`: `Spec => []ChildrenOfRetryable`;
* `RecoveryComplete`: `Spec => RecoveryReconciles`;
* `AnnouncedOnce`: `Spec => []EventMatchesStatus`;
* `ResultHasEvent`: `Spec => []FinishedHasEvent`.

`AtMostOnce` speaks of rows, but the step that could break it is `Requeue`,
which decides on what the executor remembers. The inductive invariant `IInv`
ties each goroutine's memory to the rows it is about to write:

* `OwnedIsRunning`: from `Claim` to the write that ends a run, the executor's
  row is `running`. This is why `finish`, which writes by id alone, never
  changes an ended job, and why cancel (which needs `queued`) and the executor
  never write the same row;
* `EffectsSeen`: while the stream is read, the Collector saw every tool call of
  the current run, and a run about to be requeued showed none;
* `FreshIds`: an id being inserted has no row and no other inserter, so an
  insert never overwrites;
* `BootInv`: before the loops start no other goroutine holds anything, and
  after `RecoverRunning` no row is running. Without it a recovery could take a
  row from under an executor.

`ExecFrame` and `ReleaseFrame` state once what a step must leave alone for the
rest of `IInv` to survive; each action that writes `jobs` or `req` has a lemma
of its own; `InvStep` combines them. `StatusFinal` follows from `IInv` by one
case for each writer of `jobs`.

`JobProofs` adds two invariants. `ChildInv`: a request between its read and its
insert still has a parent that allows a child, because the statuses it read are
final. `EventInv`: nothing is announced of a job that has not ended; a request
about to announce a cancellation is the only one to do so, of a job that is
cancelled and has no event; recovery announces jobs it marked interrupted that
have none; and what a reload announces is of queues that were removed
(`ReloadRemoved`). While reloads come one after the other (`OneReload`), such a
queue is not in the config, so the announcement goes to nobody; once two have
overlapped the other call may have brought it back, and jobs of removed queues
may be announced again (`MayRepeat`), with the status they have. `Loaders` may
be any set. Without it `EventMatchesStatus` is not inductive, since the
update and the event of these jobs are two store calls.

### Execute (`ExecuteProofs`)

* `ExecuteTypeCorrect`: `Spec => []TypeOK`;
* `CallsAreCounted`: `Spec => []ToolsAreCounted`;
* `SuccessSound`: `Spec => []SuccessIsEarned`;
* `OutcomeSurvives`: `Spec => []OutcomeIsKept`;
* `ExecuteImplementsProcess`: `Spec => ImplementsProcess`.

The verdict is computed after the reader is done, from what the Collector
holds; the properties speak of what the process did and said. `RunInv` connects
the two: `OrderInv` (`execute` goes on once the reader is through, and the reader
is through once the process is gone and the pipe empty), `PipeInv` (a line in
the pipe was said), `CollectorInv` (what the Collector holds was said, and what
was said is held or in the pipe while the stream is read), `CapsInv` (the init
line is the first, and it is checked), `CancelInv`, and `VerdictInv` (the
verdict is `Classify` of what was gathered; the watchdog's timer may still fire
after it). For the refinement, every action of `Execute` is
shown to be the step of `Process` it stands for, or to leave the mapped state
unchanged.

### Gate (`GateProofs`)

* `GateTypeCorrect`: `Spec => []TypeOK`;
* `ExpiryAnnounced`: `Spec => []ExpiryIsAnnounced`.

`ExpiryIsAnnounced` speaks of the moments when nobody is reacting. The invariant
`Pending` says what holds in between, if no request is cut short: the expiry is
announced, or some goroutine is past the early return of `observeExpired` and
on its way to the event. The goroutine that changes the state is the one that
goes on, so an early return always leaves another one on its way.

### ClaudeLock and Login (`LoginProofs`)

* `LockIsMutex`: `LockSpec => Implements`;
* `HolderNamesTheHolder`: `LockSpec => []HolderIsTrue`;
* `LoginIsACaller`: `Spec => LockSpec`;
* `LoginTypeCorrect`: `Spec => []TypeOK`;
* `LoginKeepsMutex`: `Spec => Implements /\ []HolderIsTrue`;
* `ChildUnderLock`: `Spec => []ChildHoldsLock`.

`LockInv` (a caller past its `Acquire` has the mutex, and the recorded holder is
one that has not called release) gives the refinement of `Mutex` under the
mapping `holderBar`. Every step of `Login` is a step of the lock or a stutter of
it, so what is proved of the lock holds under logins without being proved again.
`ChildUnderLock` needs `AttemptInv`: an attempt somebody can name was begun, its
request keeps the lock until `finishAttempt` has killed the child, and a child
that lives belongs to an attempt whose teardown has not come that far, whoever
of the starter, the submitters and the watcher finishes it.

### Delivery and Events (`EventsProofs`)

* `EventsTypeCorrect`: `Spec => []TypeOK`;
* `DeliveryAtLeastOnce`: `Spec => []DeliveredWasReceived`;
* `BatchStaysFresh`: `Spec => []BatchIsFresh`;
* `GivenUpAfterWindow`: `Spec => []DeadWasTried`;
* `OutboxStaysExact`: `Spec => []OutboxIsExact`;
* `StreamStaysFaithful`: `Spec => []LiveStreamIsFaithful`.

`BatchInv` says that the rows of a batch are distinct and as claimed, so a mark
touches one row and leaves the others fresh; `AttemptsInv` that a dead row used
up its attempts; `TimeInv` that the time a row was tried, with the time left
until its next attempt, is at least the sum of the backoffs of its attempts, so
that neither a mark that failed nor a death makes up for a backoff.
`DeadWasTried` also needs facts about the numbers: `maxAttempts` is the first
count whose backoffs fill the window, or the limit (`MaxAttempts`), and sums of
backoffs grow (`TotalMonotone`). `EmitInv` and
`RowsInv` say that an event between publication and commit has one emitter, which
holds its receivers, and that rows are numbered as they are inserted;
`RouteExact` shows that `Route` gives each receiver
that is owed an event one row. `StreamInv` states the order and completeness of what
a client has for every point between publication and reading.

### QueueFile, Reload and Definitions (`DefinitionsProofs`)

* `DefinitionsTypeCorrect`: `Spec => []TypeOK`;
* `ValidatedRendersFull`: `Spec => []RenderedAsValidated`.

`DefInv` has three parts beside types: a loader that goes on to record and swap
holds a text that parsed (`LoaderInv`); what `submitJob` checked stays true
of the definition it recorded, at every status of the job, and what `Render`
left blank was not given or given as "", under whatever definition it ran
(`RowsInv`); and a pass of the pruner has queues of a text (`PassInv`).

### Sched (`SchedProofs`)

* `CreditsStayBalanced`: `Spec => []CreditsBalance`;
* `RoundsAreProportional`: `Spec => []Proportional`;
* `NoQueueStarves`: `Spec => []NotStarved`.

`RoundInv`: in a steady round the credit of a queue is the picks so far times
its weight, less the total times the picks it won; and no queue is a whole
total in debt, since with balanced credits the winner has something to pay
with (`WinnerCanPay`). At the end of the round no queue can then have won more
than its weight, and together they won as much as they weigh.

For `NotStarved` a bound on single credits is not inductive: a queue gains
while others pay. `CreditsBounded` bounds every group of queues: with `n` queues
of weight at most `M`, any `k` of them hold at most `M * k * (n - k)` together.
A pick that enlarges a group takes its winner from outside. Those of the group that hold less than the
winner did then end below it, and the bounds on
the rest of the group and on the group with the winner give the new bound
(`GroupArithmetic`). With the balance, a bound on the other `n - 1` bounds the
debt of one, and `WaitInv` keeps what a queue would have earned in the picks it
lost within its credit plus that debt.

### Induction

The library's induction theorems take an operator as a parameter, which the
provers cannot instantiate. Where a proof needs induction (the sums of
backoffs, the sums of credits), it uses a lemma about sets instead: a set of
numbers that contains 0 and every successor is `Nat` (`Induct`), and a set of
subsets of a finite set that passes from each subset less one element to the
subset contains them all (`SubsetInduct`). Both follow from the fact that a set
of numbers has a least one. `SumSolution` and `SumExists` show that the recursive functions behind
`Sum` and `Total` exist, which the other facts about them rest on.

### Only model-checked

* Liveness, which needs fairness and ENABLED, beyond the prover: `RunningEnds`
  and `QueuedSettles` (`Spool`), `GateReopens` (`Gate`), `WaitEnds` and
  `AttemptEnds` (`Login`), `EmissionEnds` and `EventSettles` (`Events`),
  `EditIsAdopted` and `TranscriptGoes` (`Definitions`), `RunEndsUnlessHeld`
  (`Execute`).
* That the code disagrees with its comments: the two runs with a violation, and
  the properties listed above that do not hold.
* That the free choice of `Pick` in `Spool` allows what `Sched` picks is by
  inspection; the two modules share no state.

## Plan

The modules are complete as far as the code is to be modelled, and the safety
properties that the runs check are proved. What is left: shorter proofs where
two modules prove the same fact about numbers, and further invariants of the
code worth a theorem, in the first place that the rows a recovery fails are
exactly those of the run the death interrupted.

No module declares a RECURSIVE operator; `Delivery` uses a recursive function,
`Sched` a fold, and of the other community modules only the sequence helpers.

## Not modelled

* Listing, paging, reading transcripts, metrics, the append-only `auth_events` log and
  all other reads no decision hangs on.
* `config.yaml`: it is read once at start-up and never changes; receivers' event
  lists and tokens' queues appear as constants of `Events`.
* Prompt and schema text, the `claude` command line and its environment,
  webhook signing, token checks, HTTP routing, and the text of a usage limit's
  reset time: pure text or single-shot checks without state.
* `SweepWorkDirs`, which clears directories nothing reads, and the keep-alive
  comments of the event stream.
* The HTTP server's drain at shutdown: it lets handlers finish or cuts them off
  after a grace period, and `Spool` lets a handler be cut off at any point.
* `store.Finish` and `store.CancelRunning`, which have no caller.
* The deployment files and live-test scripts (`src/deploy`); `src/clients` holds
  only a README for clients still to be written.
