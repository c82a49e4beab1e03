----------------------------- MODULE SpoolProofs -----------------------------
(* Theorems about Spool, for any queues, clients, bounds and fault set. *)
EXTENDS Spool, TLAPS

(***************************************************************************)
(* The inductive invariant.  Every goroutine's local state is tied to the  *)
(* rows it is about to write.                                              *)
(***************************************************************************)

\* Nothing but recovery runs before the loops start; recovery passed its first
\* statement with no running row left.
BootInv ==
  /\ ~Up => exec = Off /\ current = NoCurrent
            /\ reload = [g \in Loaders |-> NoReload] /\ req = [c \in Clients |-> NoReq]
  /\ boot.pc = "notify" => RunningJobs = {}

\* The executor's row is running from Claim to the write that ends the run.
OwnedIsRunning ==
  exec.pc \in Owning => exec.id \in JobIds /\ jobs[exec.id].st = "running"

\* Ids are minted once: an id being inserted has no row and no other inserter.
FreshIds ==
  /\ \A j \in JobIds : j > nextId => jobs[j].st = "none"
  /\ \A c \in Clients : req[c].pc = "insert" =>
       /\ req[c].id \in JobIds /\ req[c].id <= nextId
       /\ jobs[req[c].id].st = "none"
       /\ req[c].row.st = "queued"
  /\ \A c, d \in Clients :
       c # d /\ req[c].pc = "insert" /\ req[d].pc = "insert" => req[c].id # req[d].id
  /\ \A c \in Clients : req[c].pc \in {"stop", "cancel", "notify"} => req[c].id \in JobIds

\* Tool calls belong to rows that ran; while the stream is read, the Collector
\* has seen those of the current run, and a run to be requeued showed none.
EffectsSeen ==
  /\ \A j \in effects : jobs[j].st \in Terminal \union {"queued", "running"}
  /\ exec.pc = "requeue" => ~exec.seen
  /\ "stream" \notin Faults =>
       /\ exec.pc = "running" => exec.streaming
       /\ exec.pc \in Owning /\ exec.id \in effects => exec.seen

\* The inductive invariant: the types, the ties above, and the three invariants that
\* need each other to be preserved.
IInv == /\ TypeOK /\ BootInv /\ OwnedIsRunning /\ FreshIds /\ EffectsSeen
        /\ AtMostOnce /\ RunningIsOwned /\ CurrentIsRunning

-----------------------------------------------------------------------------

\* Values the actions assign have their types.
LEMMA ConstantTypes ==
  /\ Blank \in Row
  /\ NoVerdict \in Verdict
  /\ Idle \in ExecState /\ Off \in ExecState
  /\ NoCurrent \in CurrentState
  /\ NoReload \in ReloadState
  /\ NoReq \in ReqState
  /\ Down \in BootState
<1>1. (CHOOSE q \in Queues : TRUE) \in Queues
  BY SpoolAssumptions
<1>2. Blank \in Row
  BY <1>1 DEF Blank, RowWith, Row, JobStatus, Terminal, NoId
<1>3. NoVerdict \in Verdict
  BY DEF NoVerdict, Failed, Verdict, Terminal
<1> QED
  BY <1>2, <1>3 DEF ExecAt, Idle, Off, NoCurrent, NoReload, NoReq, Down, ExecPcs, ReloadPcs, ReqPcs,
                    BootPcs, NoId, ExecState, CurrentState, ReloadState, ReqState, BootState

\* A row as submit, retry and reply build it is a row.
LEMMA NewRowType ==
  ASSUME NEW q \in Queues, NEW p \in Nat, NEW k \in Keys \union {NoKey},
         NEW par \in JobIds \union {NoId}, NEW r \in BOOLEAN
  PROVE  NewRow(q, p, k, par, r) \in Row /\ NewRow(q, p, k, par, r).st = "queued"
BY DEF NewRow, RowWith, Row, JobStatus

\* Updating the status of a row keeps its type.
LEMMA RowStatus ==
  ASSUME NEW r \in Row, NEW st \in JobStatus
  PROVE  [r EXCEPT !.st = st] \in Row
BY DEF Row

\* So does claiming it.
LEMMA RowClaimed ==
  ASSUME NEW r \in Row
  PROVE  [r EXCEPT !.st = "running", !.att = @ + 1] \in Row
<1>1. "running" \in JobStatus
  BY DEF JobStatus
<1>2. r.att \in Nat /\ r.att + 1 \in Nat
  BY DEF Row
<1>3. \A n \in Nat : [r EXCEPT !.st = "running", !.att = n] \in Row
  BY <1>1 DEF Row
<1> QED BY <1>2, <1>3

\* Moving the executor to another phase keeps its type.
LEMMA ExecPc ==
  ASSUME NEW e \in ExecState, NEW pc \in ExecPcs
  PROVE  [e EXCEPT !.pc = pc] \in ExecState
BY DEF ExecState

\* So does recording a result on the way.
LEMMA ExecResult ==
  ASSUME NEW e \in ExecState, NEW pc \in ExecPcs, NEW v \in Verdict
  PROVE  [e EXCEPT !.pc = pc, !.res = v] \in ExecState
BY DEF ExecState

\* Moving a request to another phase keeps its type.
LEMMA ReqPc ==
  ASSUME NEW r \in ReqState, NEW pc \in ReqPcs
  PROVE  [r EXCEPT !.pc = pc] \in ReqState
BY DEF ReqState

\* Deliveries of a terminal status are a sequence of terminal statuses.
LEMMA DeliveriesType ==
  ASSUME NEW q, NEW st \in Terminal
  PROVE  Deliveries(q, st) \in Seq(Terminal)
BY DEF Deliveries

\* notifyJob keeps the outbox's type.
LEMMA NotifyType ==
  ASSUME TypeOK, NEW j \in JobIds, NotifyJob(j)
  PROVE  outbox' \in [JobIds -> Seq(Terminal)]
<1>1. CASE jobs[j].st \in Terminal
  <2>1. Deliveries(jobs[j].q, jobs[j].st) \in Seq(Terminal)
    BY <1>1, DeliveriesType
  <2>2. outbox[j] \o Deliveries(jobs[j].q, jobs[j].st) \in Seq(Terminal)
    BY <2>1 DEF TypeOK
  <2> QED BY <1>1, <2>2 DEF NotifyJob, TypeOK
<1>2. CASE jobs[j].st \notin Terminal
  BY <1>2 DEF NotifyJob, TypeOK
<1> QED BY <1>1, <1>2

\* Minting an id keeps the types.
LEMMA MintType ==
  ASSUME TypeOK, NEW c \in Clients, NEW row \in Row, Mint(c, row)
  PROVE  TypeOK'
<1>1. nextId' \in JobIds \union {NoId} /\ nextId' \in JobIds
  BY SpoolAssumptions DEF Mint, TypeOK, JobIds, NoId
<1>2. [pc |-> "insert", id |-> nextId + 1, row |-> row] \in ReqState
  BY <1>1 DEF Mint, ReqState, ReqPcs
<1>3. req' \in [Clients -> ReqState]
  BY <1>2 DEF Mint, TypeOK
<1> QED BY <1>1, <1>3 DEF Mint, TypeOK, vars, dbVars, cfgVars, procVars, runVars

\* Every step keeps every table and every goroutine's state well typed.
LEMMA TypeStep ==
  ASSUME IInv, [Next]_vars
  PROVE  TypeOK'
<1> USE ConstantTypes, SpoolAssumptions DEF IInv, TypeOK
<1>1. CASE ReadGate
  BY <1>1 DEF ReadGate, vars, dbVars, cfgVars, procVars, runVars, ExecState, ExecPcs
<1>2. CASE Pick
  <2>1. {"claim"} \in SUBSET ExecPcs
    BY DEF ExecPcs
  <2>2. exec' \in ExecState
    <3>1. ASSUME NEW q \in Candidates PROVE [exec EXCEPT !.pc = "claim", !.q = {q}] \in ExecState
      BY <2>1 DEF Candidates, ExecState
    <3> QED BY <1>2, <3>1 DEF Pick
  <2> QED BY <1>2, <2>2 DEF Pick, vars, dbVars, cfgVars, procVars, runVars
<1>3. CASE Claim
  <2>1. CASE UNCHANGED jobs /\ exec' = Idle
    BY <1>3, <2>1 DEF Claim, vars, dbVars, cfgVars, procVars, runVars
  <2>2. ASSUME NEW j \in JobIds, exec' = ExecAt("claimed", j),
               jobs' = [jobs EXCEPT ![j].st = "running", ![j].att = @ + 1]
        PROVE  TypeOK'
    <3>1. exec' \in ExecState
      BY <2>2 DEF ExecAt, ExecState, ExecPcs
    <3>2. jobs' \in [JobIds -> Row]
      <4>1. [jobs[j] EXCEPT !.st = "running", !.att = @ + 1] \in Row
        BY RowClaimed
      <4> QED BY <2>2, <4>1
    <3> QED BY <1>3, <3>1, <3>2 DEF Claim, vars, dbVars, cfgVars, procVars, runVars
  <2> QED BY <1>3, <2>1, <2>2, Zenon DEF Claim
<1>4. CASE ExecutorExits
  BY <1>4 DEF ExecutorExits, vars, dbVars, cfgVars, procVars, runVars
<1>5. CASE PrepareRun
  <2>1. {"lock", "finish"} \in SUBSET ExecPcs
    BY DEF ExecPcs
  <2>2. exec' \in ExecState
    <3>1. [exec EXCEPT !.pc = "lock"] \in ExecState
      BY <2>1, ExecPc
    <3>2. [exec EXCEPT !.pc = "finish", !.res = NoVerdict] \in ExecState
      BY <2>1, ExecResult
    <3> QED BY <1>5, <3>1, <3>2, Zenon DEF PrepareRun
  <2> QED BY <1>5, <2>2 DEF PrepareRun, vars, dbVars, cfgVars, procVars, runVars
<1>6. CASE AcquireLock
  BY <1>6 DEF AcquireLock, vars, dbVars, cfgVars, procVars, runVars, ExecState, ExecPcs, CurrentState
<1>7. CASE LockAbandoned
  BY <1>7 DEF LockAbandoned, vars, dbVars, cfgVars, procVars, runVars, ExecState, ExecPcs
<1>8. CASE StartClaude
  <2>1. {"running", "unwind"} \in SUBSET ExecPcs
    BY DEF ExecPcs
  <2>2. exec' \in ExecState
    <3>1. [exec EXCEPT !.pc = "running", !.streaming = TRUE] \in ExecState
      BY <2>1 DEF ExecState
    <3>2. [exec EXCEPT !.pc = "unwind", !.res = NoVerdict] \in ExecState
      BY <2>1, ExecResult
    <3> QED BY <1>8, <3>1, <3>2 DEF StartClaude
  <2> QED BY <1>8, <2>2 DEF StartClaude, vars, dbVars, cfgVars, procVars, runVars
<1>9. CASE ClaudeExits \/ HelperLetsGo
  <2>1. {"exited"} \in SUBSET ExecPcs /\ Verdicts(exec.id) \in SUBSET Verdict
    BY DEF ExecPcs, Verdicts
  <2>2. exec' \in ExecState
    <3>1. PICK v \in Verdicts(exec.id) : exec' = [exec EXCEPT !.pc = "exited", !.res = v]
      BY <1>9 DEF ClaudeExits, HelperLetsGo, Reaped
    <3> QED BY <2>1, <3>1, ExecResult
  <2> QED BY <1>9, <2>2 DEF ClaudeExits, HelperLetsGo, Reaped, vars, dbVars, cfgVars, procVars, runVars
<1>10. CASE ReadCancelled
  <2>1. {"unwind"} \in SUBSET ExecPcs /\ exec.res \in Verdict
        /\ [st |-> "cancelled", kind |-> "none", sess |-> FALSE] \in Verdict
    BY DEF ExecPcs, ExecState, Verdict, Terminal
  <2>2. \A v \in Verdict : [exec EXCEPT !.pc = "unwind", !.res = v] \in ExecState
    BY <2>1, ExecResult
  <2>3. exec' \in ExecState
    BY <1>10, <2>1, <2>2 DEF ReadCancelled
  <2> QED BY <1>10, <2>3 DEF ReadCancelled, vars, dbVars, cfgVars, procVars, runVars
<1>11. CASE Unwind
  BY <1>11 DEF Unwind, vars, dbVars, cfgVars, procVars, runVars, ExecState, ExecPcs
<1>12. CASE Decide
  BY <1>12 DEF Decide, vars, dbVars, cfgVars, procVars, runVars, ExecState, ExecPcs, Row
<1>13. CASE Requeue
  <2>1. {"finish"} \in SUBSET ExecPcs
    BY DEF ExecPcs
  <2>2. exec' \in ExecState
    BY <1>13, <2>1, ExecPc DEF Requeue
  <2>3. "queued" \in JobStatus
    BY DEF JobStatus
  <2>4. jobs' \in [JobIds -> Row]
    BY <1>13, <2>3, RowStatus DEF Requeue
  <2> QED BY <1>13, <2>2, <2>4 DEF Requeue, vars, dbVars, cfgVars, procVars, runVars
<1>14. CASE Finish
  <2>1. exec.res.st \in Terminal /\ exec.res.sess \in BOOLEAN
    BY DEF ExecState, Verdict
  <2>2. exec.id \in JobIds
    BY <1>14 DEF Finish, ExecStep, OwnedIsRunning, Owning
  <2>3. jobs' \in [JobIds -> Row]
    <3>1. [jobs[exec.id] EXCEPT !.st = exec.res.st, !.sess = exec.res.sess] \in Row
      BY <2>1, <2>2 DEF Row, JobStatus
    <3> QED BY <1>14, <2>2, <3>1 DEF Finish
  <2>4. outbox' \in [JobIds -> Seq(Terminal)]
    <3>1. outbox[exec.id] \o Deliveries(jobs[exec.id].q, exec.res.st) \in Seq(Terminal)
      BY <2>1, <2>2, DeliveriesType
    <3> QED BY <1>14, <3>1 DEF Finish
  <2> QED BY <1>14, <2>3, <2>4 DEF Finish, vars, dbVars, cfgVars, procVars, runVars
<1>15. CASE ToolCall
  <2>1. ExecStep("running") /\ exec.id \in JobIds
    BY <1>15 DEF ToolCall, ExecStep, OwnedIsRunning, Owning
  <2>2. exec' \in ExecState
    BY <1>15 DEF ToolCall, ExecState
  <2> QED BY <1>15, <2>1, <2>2 DEF ToolCall, vars, dbVars, cfgVars, procVars, runVars
<1>16. CASE StreamFails \/ HelperHolds
  <2>1. CASE StreamFails
    BY <2>1 DEF StreamFails, vars, dbVars, cfgVars, procVars, runVars, ExecState, ExecPcs
  <2>2. CASE HelperHolds
    BY <2>2 DEF HelperHolds, vars, dbVars, cfgVars, procVars, runVars, ExecState, ExecPcs
  <2> QED BY <1>16, <2>1, <2>2
<1>17. ASSUME NEW g \in Loaders, ReadFile(g) \/ Compare(g) \/ Record(g) \/ ReloadSwap(g)
       PROVE  TypeOK'
  <2>0. reload[g] \in ReloadState
    OBVIOUS
  <2>1. CASE ReadFile(g)
    <3>1. [NoReload EXCEPT !.pc = "compare", !.buf = file] \in ReloadState
      BY DEF ReloadState, ReloadPcs
    <3> QED BY <2>1, <3>1 DEF ReadFile, vars, dbVars, cfgVars, procVars, runVars
  <2>2. CASE Compare(g)
    <3>1. [reload[g] EXCEPT !.pc = "record"] \in ReloadState
      BY <2>0 DEF ReloadState, ReloadPcs
    <3> QED BY <2>2, <3>1 DEF Compare, vars, dbVars, cfgVars, procVars, runVars
  <2>3. CASE Record(g)
    <3>1. /\ [reload[g] EXCEPT !.pc = "swap", !.todo = config \ reload[g].buf] \in ReloadState
          /\ reload[g].buf \in SUBSET Queues
      BY <2>0 DEF ReloadState, ReloadPcs
    <3> QED BY <2>3, <3>1 DEF Record, vars, dbVars, cfgVars, procVars, runVars
  <2>4. CASE ReloadSwap(g)
    <3>1. /\ [reload[g] EXCEPT !.pc = "select", !.buf = {}] \in ReloadState
          /\ reload[g].buf \in SUBSET Queues
      BY <2>0 DEF ReloadState, ReloadPcs
    <3> QED BY <2>4, <3>1 DEF ReloadSwap, vars, dbVars, cfgVars, procVars, runVars
  <2> QED BY <1>17, <2>1, <2>2, <2>3, <2>4
<1>18. ASSUME NEW g \in Loaders, FailSelect(g) PROVE TypeOK'
  <2>0. reload[g] \in ReloadState
    OBVIOUS
  <2>1. reload' \in [Loaders -> ReloadState]
    <3>1. CASE reload' = [reload EXCEPT ![g] = NoReload]
      BY <3>1
    <3>2. ASSUME NEW q \in reload[g].todo, reload' = [reload EXCEPT ![g].todo = @ \ {q}]
          PROVE  reload' \in [Loaders -> ReloadState]
      <4>1. [reload[g] EXCEPT !.todo = @ \ {q}] \in ReloadState
        BY <2>0 DEF ReloadState
      <4> QED BY <3>2, <4>1
    <3>3. ASSUME NEW q \in reload[g].todo,
                 reload' = [reload EXCEPT ![g] = [pc |-> "update", buf |-> {}, todo |-> @.todo \ {q},
                                                  q |-> {q}, ids |-> QueuedIn(q)]]
          PROVE  reload' \in [Loaders -> ReloadState]
      <4>1. [pc |-> "update", buf |-> {}, todo |-> reload[g].todo \ {q}, q |-> {q},
             ids |-> QueuedIn(q)] \in ReloadState
        BY <2>0 DEF ReloadState, ReloadPcs, QueuedIn
      <4> QED BY <3>3, <4>1
    <3> QED BY <1>18, <3>1, <3>2, <3>3 DEF FailSelect
  <2> QED BY <1>18, <2>1 DEF FailSelect, vars, dbVars, cfgVars, procVars, runVars
<1>19. ASSUME NEW g \in Loaders, FailUpdate(g) PROVE TypeOK'
  <2>1. reload' \in [Loaders -> ReloadState]
    <3>1. /\ [reload[g] EXCEPT !.pc = "notify", !.q = {}] \in ReloadState
          /\ [reload[g] EXCEPT !.pc = "select", !.q = {}, !.ids = {}] \in ReloadState
      BY DEF ReloadState, ReloadPcs
    <3>2. CASE reload' = [reload EXCEPT ![g].pc = "notify", ![g].q = {}]
      BY <3>1, <3>2
    <3>3. CASE reload' = [reload EXCEPT ![g].pc = "select", ![g].q = {}, ![g].ids = {}]
      BY <3>1, <3>3
    <3> QED BY <1>19, <3>2, <3>3, Zenon DEF FailUpdate
  <2>2. jobs' \in [JobIds -> Row]
    <3>1. "failed" \in JobStatus
      BY DEF JobStatus, Terminal
    <3>2. \A j \in JobIds : [jobs[j] EXCEPT !.st = "failed"] \in Row
      BY <3>1, RowStatus
    <3>3. CASE UNCHANGED jobs
      BY <3>3
    <3>4. CASE jobs' = [j \in JobIds |-> IF jobs[j].st = "queued" /\ jobs[j].q \in reload[g].q
                                         THEN [jobs[j] EXCEPT !.st = "failed"] ELSE jobs[j]]
      BY <3>2, <3>4
    <3> QED BY <1>19, <3>3, <3>4, Zenon DEF FailUpdate
  <2> QED BY <1>19, <2>1, <2>2 DEF FailUpdate, vars, dbVars, cfgVars, procVars, runVars
<1>20. ASSUME NEW g \in Loaders, ReloadNotify(g) PROVE TypeOK'
  <2>1. reload[g].ids \in SUBSET JobIds
    BY DEF ReloadState
  <2>2. reload' \in [Loaders -> ReloadState]
    <3>1. [reload[g] EXCEPT !.pc = "select"] \in ReloadState
      BY DEF ReloadState, ReloadPcs
    <3>2. \A j : [reload[g] EXCEPT !.ids = @ \ {j}] \in ReloadState
      BY DEF ReloadState
    <3>3. CASE reload' = [reload EXCEPT ![g].pc = "select"]
      BY <3>1, <3>3
    <3>4. ASSUME NEW j \in reload[g].ids, reload' = [reload EXCEPT ![g].ids = @ \ {j}]
          PROVE  reload' \in [Loaders -> ReloadState]
      BY <3>2, <3>4
    <3> QED BY <1>20, <3>3, <3>4 DEF ReloadNotify
  <2>3. outbox' \in [JobIds -> Seq(Terminal)]
    BY <1>20, <2>1, NotifyType DEF ReloadNotify
  <2> QED BY <1>20, <2>2, <2>3 DEF ReloadNotify, vars, dbVars, cfgVars, procVars, runVars
<1>21. CASE LoadQueues
  BY <1>21 DEF LoadQueues, vars, dbVars, cfgVars, procVars, runVars, BootState, BootPcs
<1>22. CASE RecoverRunning
  <2>1. boot' \in BootState
    BY <1>22 DEF RecoverRunning, BootState, BootPcs, RunningJobs
  <2>2. jobs' \in [JobIds -> Row]
    <3>1. "interrupted" \in JobStatus
      BY DEF JobStatus, Terminal
    <3> QED BY <1>22, <3>1, RowStatus DEF RecoverRunning
  <2> QED BY <1>22, <2>1, <2>2 DEF RecoverRunning, vars, dbVars, cfgVars, procVars, runVars
<1>23. CASE RecoverNotify
  <2>1. boot' \in BootState /\ boot.ids \in SUBSET JobIds
    <3>1. boot.ids \in SUBSET JobIds /\ \A j : [boot EXCEPT !.ids = @ \ {j}] \in BootState
      BY DEF BootState
    <3> QED BY <1>23, <3>1 DEF RecoverNotify
  <2>2. outbox' \in [JobIds -> Seq(Terminal)]
    BY <1>23, <2>1, NotifyType DEF RecoverNotify
  <2> QED BY <1>23, <2>1, <2>2 DEF RecoverNotify, vars, dbVars, cfgVars, procVars, runVars
<1>24. CASE RecoverRemoved
  <2>1. boot' \in BootState
    BY <1>24 DEF RecoverRemoved, BootState, BootPcs, QueuedIn
  <2>2. jobs' \in [JobIds -> Row]
    <3>1. "failed" \in JobStatus
      BY DEF JobStatus, Terminal
    <3> QED BY <1>24, <3>1, RowStatus DEF RecoverRemoved
  <2> QED BY <1>24, <2>1, <2>2 DEF RecoverRemoved, vars, dbVars, cfgVars, procVars, runVars
<1>25. CASE StartLoops
  BY <1>25 DEF StartLoops, vars, dbVars, cfgVars, procVars, runVars, BootState, BootPcs
<1>26. CASE SetPaused
  BY <1>26 DEF SetPaused, vars, dbVars, cfgVars, procVars, runVars
<1>27. CASE EditFile
  BY <1>27 DEF EditFile, vars, dbVars, cfgVars, procVars, runVars
<1>28. CASE Stop
  BY <1>28 DEF Stop, vars, dbVars, cfgVars, procVars, runVars
<1>29. CASE Die
  <2>1. bounds' \in [crashes : Nat, edits : Nat]
    <3>1. bounds' = [bounds EXCEPT !.crashes = @ + 1]
      BY <1>29, Zenon DEF Die
    <3> HIDE DEF TypeOK
    <3>2. bounds \in [crashes : Nat, edits : Nat]
      BY Zenon DEF IInv, TypeOK
    <3> QED BY ONLY <3>1, <3>2
  <2>2. req' \in [Clients -> ReqState]
    BY <1>29 DEF Die
  <2> QED BY <1>29, <2>1, <2>2 DEF Die, vars, dbVars, cfgVars, procVars, runVars
<1>30. ASSUME NEW c \in Clients, Insert(c) PROVE TypeOK'
  <2>1. jobs' \in [JobIds -> Row]
    BY <1>30 DEF Insert, ReqState
  <2>2. req' \in [Clients -> ReqState]
    BY <1>30 DEF Insert
  <2> QED BY <1>30, <2>1, <2>2 DEF Insert, vars, dbVars, cfgVars, procVars, runVars
<1>31. ASSUME NEW c \in Clients, CancelRunning(c) PROVE TypeOK'
  <2>1. req' \in [Clients -> ReqState]
    <3>1. "refused" \in ReqPcs
      BY DEF ReqPcs
    <3>2. [req[c] EXCEPT !.pc = "refused"] \in ReqState
      BY <1>31, <3>1, ReqPc
    <3> QED BY <1>31, <3>2 DEF CancelRunning
  <2>2. current' \in CurrentState
    BY <1>31 DEF CancelRunning, CurrentState
  <2> QED BY <1>31, <2>1, <2>2 DEF CancelRunning, vars, dbVars, cfgVars, procVars, runVars
<1>32. ASSUME NEW c \in Clients, CancelQueued(c) PROVE TypeOK'
  <2>1. req' \in [Clients -> ReqState]
    <3>1. "notify" \in ReqPcs
      BY DEF ReqPcs
    <3>2. [req[c] EXCEPT !.pc = "notify"] \in ReqState
      BY <1>32, <3>1, ReqPc
    <3> QED BY <1>32, <3>2 DEF CancelQueued
  <2>2. jobs' \in [JobIds -> Row]
    <3>1. "cancelled" \in JobStatus
      BY DEF JobStatus, Terminal
    <3> QED BY <1>32, <3>1, RowStatus DEF CancelQueued
  <2> QED BY <1>32, <2>1, <2>2 DEF CancelQueued, vars, dbVars, cfgVars, procVars, runVars
<1>33. ASSUME NEW c \in Clients, CancelNotify(c) PROVE TypeOK'
  <2>1. req' \in [Clients -> ReqState]
    BY <1>33 DEF CancelNotify
  <2>2. outbox' \in [JobIds -> Seq(Terminal)]
    BY <1>33, NotifyType DEF CancelNotify, FreshIds
  <2> QED BY <1>33, <2>1, <2>2 DEF CancelNotify, vars, dbVars, cfgVars, procVars, runVars
<1>34. ASSUME NEW c \in Clients, Submit(c) PROVE TypeOK'
  <2>1. PICK q \in config, p \in Priorities, k \in Keys \union {NoKey} :
          Mint(c, NewRow(q, p, k, NoId, FALSE))
    BY <1>34 DEF Submit
  <2> QED BY <2>1, NewRowType, MintType
<1>35. ASSUME NEW c \in Clients, RetryJob(c) PROVE TypeOK'
  <2>1. PICK p \in JobIds : Mint(c, NewRow(jobs[p].q, jobs[p].pri, NoKey, p, FALSE))
    BY <1>35 DEF RetryJob
  <2>2. jobs[p].q \in Queues /\ jobs[p].pri \in Nat
    BY DEF Row
  <2> QED BY <2>1, <2>2, NewRowType, MintType
<1>36. ASSUME NEW c \in Clients, ReplyJob(c) PROVE TypeOK'
  <2>1. PICK p \in JobIds : Mint(c, NewRow(jobs[p].q, jobs[p].pri, NoKey, p, TRUE))
    BY <1>36 DEF ReplyJob
  <2>2. jobs[p].q \in Queues /\ jobs[p].pri \in Nat
    BY DEF Row
  <2> QED BY <2>1, <2>2, NewRowType, MintType
<1>37. ASSUME NEW c \in Clients, CancelJob(c) PROVE TypeOK'
  BY <1>37 DEF CancelJob, vars, dbVars, cfgVars, procVars, runVars, ReqState, ReqPcs, Exists
<1>38. ASSUME NEW c \in Clients, Disconnect(c) PROVE TypeOK'
  BY <1>38 DEF Disconnect, vars, dbVars, cfgVars, procVars, runVars, ReqState, ReqPcs
<1>39. CASE UNCHANGED vars
  BY <1>39 DEF vars, dbVars, cfgVars, procVars, runVars
<1> QED
  BY <1>1, <1>2, <1>3, <1>4, <1>5, <1>6, <1>7, <1>8, <1>9, <1>10, <1>11, <1>12, <1>13, <1>14, <1>15, <1>16, <1>17, <1>18, <1>19, <1>20, <1>21, <1>22, <1>23, <1>24, <1>25, <1>26, <1>27, <1>28, <1>29, <1>30, <1>31, <1>32, <1>33, <1>34, <1>35, <1>36, <1>37, <1>38, <1>39 DEF Next, Loop, Run, Wait, Process, Reload, Boot, Environment, Handler, Request

\* What keeps each part of the invariant, in terms of statuses only.
LEMMA FreshFrame ==
  ASSUME FreshIds, nextId' = nextId,
         \A k \in JobIds : jobs[k].st = "none" => jobs'[k].st = "none",
         \A d \in Clients :
           \/ req'[d] = req[d]
           \/ req'[d].pc \in {"idle", "refused"}
           \/ req'[d].pc \in {"stop", "cancel", "notify"} /\ req'[d].id \in JobIds
  PROVE  FreshIds'
BY DEF FreshIds

\* The executor's part survives a write to a row that is not running.
LEMMA ExecFrame ==
  ASSUME TypeOK, OwnedIsRunning, EffectsSeen, AtMostOnce, RunningIsOwned, CurrentIsRunning,
         UNCHANGED <<exec, current, boot, effects>>,
         \A k \in JobIds : \/ jobs'[k].st = jobs[k].st
                           \/ jobs[k].st = "queued" /\ jobs'[k].st \in Terminal
                           \/ jobs[k].st = "none" /\ jobs'[k].st = "queued" /\ k \notin effects
  PROVE  (OwnedIsRunning /\ EffectsSeen /\ AtMostOnce /\ RunningIsOwned /\ CurrentIsRunning)'
<1>1. \A k \in JobIds : jobs'[k].st = "running" <=> jobs[k].st = "running"
  BY DEF Terminal
<1>2. OwnedIsRunning'
  BY <1>1 DEF OwnedIsRunning
<1>3. EffectsSeen'
  BY DEF EffectsSeen, TypeOK
<1>4. AtMostOnce'
  BY DEF AtMostOnce, NeverRepeated, TypeOK, Terminal
<1>5. RunningIsOwned'
  BY <1>1 DEF RunningIsOwned, RunningJobs, Up
<1>6. CurrentIsRunning'
  BY <1>1 DEF CurrentIsRunning, TypeOK, CurrentState, NoId
<1> QED BY <1>2, <1>3, <1>4, <1>5, <1>6

\* A row ends or goes back to the queue as the executor lets go of it.
LEMMA ReleaseFrame ==
  ASSUME IInv, Up, UNCHANGED <<current, boot, effects, nextId, reload, req>>,
         exec.pc \in {"requeue", "finish"}, exec' = Idle,
         NEW st \in Terminal \union {"queued"}, st = "queued" => exec.pc = "requeue",
         \A k \in JobIds : jobs'[k].st = IF k = exec.id THEN st ELSE jobs[k].st
  PROVE  (BootInv /\ OwnedIsRunning /\ FreshIds /\ EffectsSeen
          /\ AtMostOnce /\ RunningIsOwned /\ CurrentIsRunning)'
<1>1. exec.id \in JobIds /\ jobs[exec.id].st = "running"
  BY DEF IInv, OwnedIsRunning, Owning
<1>2. st \notin {"running", "none"} /\ exec'.pc = "idle" /\ current.id = NoId
  BY DEF Terminal, Idle, ExecAt, IInv, CurrentIsRunning, Inside
<1>3. FreshIds'
  BY <1>1, <1>2, FreshFrame DEF IInv
<1>4. (BootInv /\ OwnedIsRunning)'
  BY <1>2 DEF IInv, BootInv, OwnedIsRunning, Up, Owning
<1>5. EffectsSeen'
  BY <1>1, <1>2 DEF IInv, TypeOK, EffectsSeen, Owning
<1>6. AtMostOnce'
  <2>1. "stream" \notin Faults /\ st = "queued" => exec.id \notin effects
    BY DEF IInv, EffectsSeen, Owning
  <2> QED BY <1>1, <2>1 DEF IInv, TypeOK, AtMostOnce, NeverRepeated, Terminal
<1>7. RunningIsOwned'
  BY <1>1, <1>2 DEF IInv, RunningIsOwned, RunningJobs, Up
<1>8. CurrentIsRunning'
  BY <1>2 DEF CurrentIsRunning
<1> QED BY <1>3, <1>4, <1>5, <1>6, <1>7, <1>8

\* Claim takes a queued row, which has no effects yet, for the executor alone.
LEMMA ClaimInv ==
  ASSUME IInv, Claim
  PROVE  (BootInv /\ OwnedIsRunning /\ FreshIds /\ EffectsSeen
          /\ AtMostOnce /\ RunningIsOwned /\ CurrentIsRunning)'
<1>1. Up /\ exec.pc = "claim" /\ UNCHANGED <<boot, current, effects, nextId, reload, req>>
  BY DEF Claim, ExecStep, dbVars, cfgVars, procVars, runVars
<1>2. CASE UNCHANGED jobs /\ exec' = Idle
  <2>1. exec'.pc = "idle" /\ current.id = NoId
    BY <1>1, <1>2 DEF Idle, ExecAt, IInv, CurrentIsRunning, Inside
  <2>2. (BootInv /\ OwnedIsRunning /\ FreshIds)'
    BY <1>1, <1>2, <2>1, FreshFrame DEF IInv, BootInv, OwnedIsRunning, Up, Owning
  <2>3. (EffectsSeen /\ AtMostOnce)'
    BY <1>1, <1>2, <2>1 DEF IInv, EffectsSeen, AtMostOnce, NeverRepeated, Owning
  <2>4. (RunningIsOwned /\ CurrentIsRunning)'
    BY <1>1, <1>2, <2>1 DEF IInv, RunningIsOwned, CurrentIsRunning, RunningJobs, Up, Owning
  <2> QED BY <2>2, <2>3, <2>4
<1>3. ASSUME NEW q \in exec.q, NEW j \in JobIds, IsHead(j, q), exec' = ExecAt("claimed", j),
             jobs' = [jobs EXCEPT ![j].st = "running", ![j].att = @ + 1]
      PROVE  (BootInv /\ OwnedIsRunning /\ FreshIds /\ EffectsSeen
          /\ AtMostOnce /\ RunningIsOwned /\ CurrentIsRunning)'
  <2>1. jobs[j].st = "queued"
    BY <1>3 DEF IsHead, QueuedIn
  <2>2. \A k \in JobIds : jobs'[k].st = IF k = j THEN "running" ELSE jobs[k].st
    BY <1>3 DEF IInv, TypeOK, Row
  <2>3. exec'.pc = "claimed" /\ exec'.id = j /\ current.id = NoId
    BY <1>1, <1>3 DEF ExecAt, IInv, CurrentIsRunning, Inside
  <2>4. FreshIds'
    BY <1>1, <2>1, <2>2, FreshFrame DEF IInv
  <2>5. (BootInv /\ OwnedIsRunning)'
    BY <1>1, <2>2, <2>3 DEF IInv, BootInv, OwnedIsRunning, Up
  <2>6. (EffectsSeen /\ AtMostOnce)'
    <3>1. "stream" \notin Faults => j \notin effects
      BY <2>1 DEF IInv, AtMostOnce, NeverRepeated
    <3>2. effects \in SUBSET JobIds
      BY DEF IInv, TypeOK
    <3> QED BY <1>1, <2>2, <2>3, <3>1, <3>2 DEF IInv, EffectsSeen, AtMostOnce, NeverRepeated
  <2>7. (RunningIsOwned /\ CurrentIsRunning)'
    BY <1>1, <2>2, <2>3 DEF IInv, RunningIsOwned, CurrentIsRunning, RunningJobs, Up, Owning
  <2> QED BY <2>4, <2>5, <2>6, <2>7
<1> QED BY <1>2, <1>3 DEF Claim

\* Requeue gives back a row whose run showed no tool call.
LEMMA RequeueInv ==
  ASSUME IInv, Requeue
  PROVE  (BootInv /\ OwnedIsRunning /\ FreshIds /\ EffectsSeen
          /\ AtMostOnce /\ RunningIsOwned /\ CurrentIsRunning)'
<1>1. /\ Up /\ exec.pc = "requeue" /\ exec.id \in JobIds
      /\ UNCHANGED <<boot, current, effects, nextId, reload, req>>
  BY DEF Requeue, ExecStep, dbVars, cfgVars, procVars, runVars, IInv, OwnedIsRunning, Owning
<1>2. CASE UNCHANGED jobs /\ exec' = [exec EXCEPT !.pc = "finish"]
  <2>1. exec'.pc = "finish" /\ exec'.id = exec.id /\ exec'.seen = exec.seen /\ current.id = NoId
    BY <1>1, <1>2 DEF IInv, TypeOK, ExecState, CurrentIsRunning, Inside
  <2>2. (BootInv /\ OwnedIsRunning /\ FreshIds)'
    BY <1>1, <1>2, <2>1, FreshFrame DEF IInv, BootInv, OwnedIsRunning, Up, Owning
  <2>3. (EffectsSeen /\ AtMostOnce)'
    BY <1>1, <1>2, <2>1 DEF IInv, EffectsSeen, AtMostOnce, NeverRepeated, Owning
  <2>4. (RunningIsOwned /\ CurrentIsRunning)'
    BY <1>1, <1>2, <2>1 DEF IInv, RunningIsOwned, CurrentIsRunning, RunningJobs, Up, Owning
  <2> QED BY <2>2, <2>3, <2>4
<1>3. CASE jobs' = [jobs EXCEPT ![exec.id].st = "queued"] /\ exec' = Idle
  <2>1. \A k \in JobIds : jobs'[k].st = IF k = exec.id THEN "queued" ELSE jobs[k].st
    BY <1>3 DEF IInv, TypeOK, Row
  <2> QED BY <1>1, <1>3, <2>1, ReleaseFrame
<1> QED BY <1>2, <1>3 DEF Requeue

\* finish ends the row the executor owns.
LEMMA FinishInv ==
  ASSUME IInv, Finish
  PROVE  (BootInv /\ OwnedIsRunning /\ FreshIds /\ EffectsSeen
          /\ AtMostOnce /\ RunningIsOwned /\ CurrentIsRunning)'
<1>1. /\ Up /\ exec.pc = "finish" /\ exec.id \in JobIds /\ exec' = Idle
      /\ UNCHANGED <<boot, current, effects, nextId, reload, req>>
  BY DEF Finish, ExecStep, dbVars, cfgVars, procVars, runVars, IInv, OwnedIsRunning, Owning
<1>2. CASE "store" \in Faults /\ UNCHANGED <<jobs, outbox>>
  <2>1. exec'.pc = "idle" /\ current.id = NoId
    BY <1>1, <1>2 DEF Idle, ExecAt, IInv, CurrentIsRunning, Inside
  <2>2. (BootInv /\ OwnedIsRunning /\ FreshIds)'
    BY <1>1, <1>2, <2>1, FreshFrame DEF IInv, BootInv, OwnedIsRunning, Up, Owning
  <2>3. (EffectsSeen /\ AtMostOnce)'
    BY <1>1, <1>2, <2>1 DEF IInv, EffectsSeen, AtMostOnce, NeverRepeated, Owning
  <2>4. (RunningIsOwned /\ CurrentIsRunning)'
    BY <1>1, <1>2, <2>1 DEF IInv, RunningIsOwned, CurrentIsRunning
  <2> QED BY <2>2, <2>3, <2>4
<1>3. CASE jobs' = [jobs EXCEPT ![exec.id].st = exec.res.st, ![exec.id].sess = exec.res.sess]
  <2>1. exec.res.st \in Terminal
    BY DEF IInv, TypeOK, ExecState, Verdict
  <2>2. \A k \in JobIds : jobs'[k].st = IF k = exec.id THEN exec.res.st ELSE jobs[k].st
    BY <1>3 DEF IInv, TypeOK, Row
  <2>3. exec.res.st # "queued"
    BY <2>1 DEF Terminal
  <2> QED BY <1>1, <2>1, <2>2, <2>3, ReleaseFrame
<1> QED BY <1>2, <1>3 DEF Finish

\* FailQueued ends queued rows only.
LEMMA FailUpdateInv ==
  ASSUME IInv, NEW g \in Loaders, FailUpdate(g)
  PROVE  (BootInv /\ OwnedIsRunning /\ FreshIds /\ EffectsSeen
          /\ AtMostOnce /\ RunningIsOwned /\ CurrentIsRunning)'
<1>1. Up /\ UNCHANGED <<exec, boot, current, effects, nextId, req>>
  BY DEF FailUpdate, dbVars, cfgVars, procVars, runVars
<1>2. \A k \in JobIds : jobs'[k].st = jobs[k].st \/ (jobs[k].st = "queued" /\ jobs'[k].st \in Terminal)
  BY DEF FailUpdate, IInv, TypeOK, Row, Terminal
<1>3. BootInv' /\ FreshIds'
  BY <1>1, <1>2, FreshFrame DEF IInv, BootInv, Up
<1> QED BY <1>1, <1>2, <1>3, ExecFrame DEF IInv

\* Recovery leaves no row running.
LEMMA RecoverRunningInv ==
  ASSUME IInv, RecoverRunning
  PROVE  (BootInv /\ OwnedIsRunning /\ FreshIds /\ EffectsSeen
          /\ AtMostOnce /\ RunningIsOwned /\ CurrentIsRunning)'
<1>1. /\ boot.pc = "recover" /\ boot'.pc = "notify" /\ exec = Off /\ current = NoCurrent
      /\ UNCHANGED <<exec, current, effects, nextId, reload, req>>
  BY DEF RecoverRunning, runVars, IInv, BootInv, Up
<1>2. \A k \in JobIds : jobs'[k].st = IF jobs[k].st = "running" THEN "interrupted" ELSE jobs[k].st
  BY DEF RecoverRunning, IInv, TypeOK, Row
<1>3. exec.pc = "off" /\ current.id = NoId
  BY <1>1 DEF Off, ExecAt, NoCurrent
<1>4. FreshIds'
  BY <1>1, <1>2, FreshFrame DEF IInv
<1>5. (BootInv /\ OwnedIsRunning /\ RunningIsOwned /\ CurrentIsRunning)'
  BY <1>1, <1>2, <1>3 DEF IInv, BootInv, OwnedIsRunning, RunningIsOwned, CurrentIsRunning, Up,
                          RunningJobs, Owning
<1>6. (EffectsSeen /\ AtMostOnce)'
  BY <1>1, <1>2, <1>3 DEF IInv, TypeOK, EffectsSeen, AtMostOnce, NeverRepeated, Terminal, Owning
<1> QED BY <1>4, <1>5, <1>6

\* Insert fills an id that no table or goroutine has seen.
LEMMA InsertInv ==
  ASSUME IInv, NEW c \in Clients, Insert(c)
  PROVE  (BootInv /\ OwnedIsRunning /\ FreshIds /\ EffectsSeen
          /\ AtMostOnce /\ RunningIsOwned /\ CurrentIsRunning)'
<1>1. Up /\ UNCHANGED <<exec, boot, current, effects, nextId, reload>>
  BY DEF Insert, dbVars, cfgVars, procVars, runVars
<1>2. /\ req[c].pc = "insert" /\ req[c].id \in JobIds /\ req[c].id <= nextId
      /\ jobs[req[c].id].st = "none" /\ req[c].row.st = "queued"
  BY DEF Insert, IInv, FreshIds
<1>3. \A d \in Clients : req'[d] = IF d = c THEN NoReq ELSE req[d]
  BY DEF Insert, IInv, TypeOK
<1>4. BootInv'
  BY <1>1 DEF IInv, BootInv, Up
<1>5. CASE jobs' = jobs
  <2>1. FreshIds'
    BY <1>1, <1>3, <1>5, FreshFrame DEF NoReq, IInv
  <2> QED BY <1>1, <1>4, <1>5, <2>1, ExecFrame DEF IInv
<1>6. CASE jobs' = [jobs EXCEPT ![req[c].id] = req[c].row]
  <2>1. \A k \in JobIds : jobs'[k].st = IF k = req[c].id THEN "queued" ELSE jobs[k].st
    BY <1>2, <1>6 DEF IInv, TypeOK
  <2>2. req[c].id \notin effects
    BY <1>2 DEF IInv, EffectsSeen, Terminal
  <2>3. FreshIds'
    <3>1. \A j \in JobIds : j > nextId' => jobs'[j].st = "none"
      BY <1>1, <1>2, <2>1, SpoolAssumptions DEF IInv, FreshIds, TypeOK, JobIds, NoId
    <3>2. \A d \in Clients : req'[d].pc = "insert" => d # c /\ req'[d] = req[d]
      BY <1>3 DEF NoReq
    <3>3. \A d \in Clients : req'[d].pc \in {"stop", "cancel", "notify"} => req'[d] = req[d]
      BY <1>3 DEF NoReq
    <3> QED BY <1>1, <1>2, <2>1, <3>1, <3>2, <3>3 DEF IInv, FreshIds
  <2> QED BY <1>1, <1>4, <2>1, <1>2, <2>2, <2>3, ExecFrame DEF IInv
<1> QED BY <1>5, <1>6 DEF Insert

\* Executor.Cancel flags the current job and touches no row.
LEMMA CancelRunningInv ==
  ASSUME IInv, NEW c \in Clients, CancelRunning(c)
  PROVE  (BootInv /\ OwnedIsRunning /\ FreshIds /\ EffectsSeen
          /\ AtMostOnce /\ RunningIsOwned /\ CurrentIsRunning)'
<1>1. Up /\ UNCHANGED <<jobs, exec, boot, effects, nextId, reload>> /\ req[c].pc = "stop"
  BY DEF CancelRunning, dbVars, cfgVars, procVars, runVars
<1>2. current'.id = current.id
  BY DEF CancelRunning, IInv, TypeOK, CurrentState
<1>3. \A d \in Clients : req'[d] = req[d] \/ req'[d].pc \in {"idle", "refused"}
  <2>1. NoReq.pc = "idle" /\ [req[c] EXCEPT !.pc = "refused"].pc = "refused"
    BY DEF NoReq, IInv, TypeOK, ReqState
  <2> QED BY <2>1 DEF CancelRunning, IInv, TypeOK
<1>4. FreshIds'
  BY <1>1, <1>3, FreshFrame DEF IInv
<1>5. (BootInv /\ OwnedIsRunning /\ RunningIsOwned /\ CurrentIsRunning)'
  BY <1>1, <1>2 DEF IInv, BootInv, OwnedIsRunning, RunningIsOwned, CurrentIsRunning, Up, RunningJobs
<1>6. (EffectsSeen /\ AtMostOnce)'
  BY <1>1 DEF IInv, EffectsSeen, AtMostOnce, NeverRepeated
<1> QED BY <1>4, <1>5, <1>6

\* store.Cancel ends a queued row.
LEMMA CancelQueuedInv ==
  ASSUME IInv, NEW c \in Clients, CancelQueued(c)
  PROVE  (BootInv /\ OwnedIsRunning /\ FreshIds /\ EffectsSeen
          /\ AtMostOnce /\ RunningIsOwned /\ CurrentIsRunning)'
<1>1. Up /\ UNCHANGED <<exec, boot, current, effects, nextId, reload>> /\ req[c].pc = "cancel"
  BY DEF CancelQueued, dbVars, cfgVars, procVars, runVars
<1>2. req[c].id \in JobIds
  BY <1>1 DEF IInv, FreshIds
<1>3. \A k \in JobIds : jobs'[k].st = jobs[k].st \/ (jobs[k].st = "queued" /\ jobs'[k].st \in Terminal)
  <2>1. [jobs[req[c].id] EXCEPT !.st = "cancelled"].st = "cancelled"
    BY <1>2 DEF IInv, TypeOK, Row
  <2> QED BY <1>2, <2>1 DEF CancelQueued, IInv, TypeOK, Terminal
<1>4. \A d \in Clients : \/ req'[d] = req[d]
                         \/ req'[d].pc = "idle"
                         \/ req'[d].pc = "notify" /\ req'[d].id \in JobIds
  <2>1. /\ NoReq.pc = "idle" /\ [req[c] EXCEPT !.pc = "notify"].pc = "notify"
        /\ [req[c] EXCEPT !.pc = "notify"].id = req[c].id
    BY DEF NoReq, IInv, TypeOK, ReqState
  <2> QED BY <1>2, <2>1 DEF CancelQueued, IInv, TypeOK
<1>5. BootInv' /\ FreshIds'
  BY <1>1, <1>3, <1>4, FreshFrame DEF IInv, BootInv, Up, Terminal
<1> QED BY <1>1, <1>3, <1>5, ExecFrame DEF IInv

\* cancelJob only reads the row.
LEMMA CancelJobInv ==
  ASSUME IInv, NEW c \in Clients, CancelJob(c)
  PROVE  (BootInv /\ OwnedIsRunning /\ FreshIds /\ EffectsSeen
          /\ AtMostOnce /\ RunningIsOwned /\ CurrentIsRunning)'
<1>1. Up /\ UNCHANGED <<jobs, exec, boot, current, effects, nextId, reload>>
  BY DEF CancelJob, Free, dbVars, cfgVars, procVars, runVars
<1>2. \A d \in Clients : \/ req'[d] = req[d]
                         \/ req'[d].pc \in {"stop", "cancel"} /\ req'[d].id \in JobIds
  BY DEF CancelJob, IInv, TypeOK
<1>3. BootInv' /\ FreshIds'
  BY <1>1, <1>2, FreshFrame DEF IInv, BootInv, Up
<1> QED BY <1>1, <1>3, ExecFrame DEF IInv

\* Minting an id keeps the invariant: the id is beyond every other.
LEMMA MintInv ==
  ASSUME IInv, Up, NEW c \in Clients, NEW row \in Row, row.st = "queued", Mint(c, row)
  PROVE  (BootInv /\ OwnedIsRunning /\ FreshIds /\ EffectsSeen
          /\ AtMostOnce /\ RunningIsOwned /\ CurrentIsRunning)'
<1>1. UNCHANGED <<jobs, exec, boot, current, effects, reload>>
  BY DEF Mint, dbVars, procVars, runVars
<1>2. nextId \in Nat /\ nextId' = nextId + 1 /\ nextId + 1 \in JobIds
  BY SpoolAssumptions DEF Mint, JobIds, NoId, IInv, TypeOK
<1>3. \A d \in Clients : req'[d] = IF d = c THEN [pc |-> "insert", id |-> nextId + 1, row |-> row]
                                    ELSE req[d]
  BY DEF Mint, IInv, TypeOK
<1>4. \A j \in JobIds : j \in Nat
  BY SpoolAssumptions DEF JobIds
<1>5. FreshIds'
  <2>1. \A j \in JobIds : j > nextId' => jobs'[j].st = "none"
    BY <1>1, <1>2, <1>4 DEF IInv, FreshIds
  <2>2. jobs[nextId + 1].st = "none"
    BY <1>2 DEF IInv, FreshIds
  <2>3. \A d \in Clients : req'[d].pc = "insert" =>
          /\ req'[d].id \in JobIds /\ req'[d].id <= nextId'
          /\ jobs'[req'[d].id].st = "none" /\ req'[d].row.st = "queued"
    BY <1>1, <1>2, <1>3, <1>4, <2>2 DEF IInv, FreshIds
  <2>4. \A d, e \in Clients :
          d # e /\ req'[d].pc = "insert" /\ req'[e].pc = "insert" => req'[d].id # req'[e].id
    <3>1. \A d \in Clients : req[d].pc = "insert" => req[d].id # nextId + 1
      BY <1>2, <1>4 DEF IInv, FreshIds
    <3> QED BY <1>3, <3>1 DEF IInv, FreshIds
  <2>5. \A d \in Clients : req'[d].pc \in {"stop", "cancel", "notify"} => req'[d].id \in JobIds
    BY <1>3 DEF IInv, FreshIds
  <2> QED BY <2>1, <2>3, <2>4, <2>5 DEF FreshIds
<1>6. BootInv'
  BY <1>1 DEF IInv, BootInv, Up
<1> QED BY <1>1, <1>5, <1>6, ExecFrame DEF IInv

\* pick leaves the executor without a job of its own.
LEMMA PickPc ==
  ASSUME TypeOK, Pick
  PROVE  exec'.pc \notin Owning /\ boot.pc = "up"
<1>1. ASSUME NEW q PROVE [exec EXCEPT !.pc = "claim", !.q = {q}].pc = "claim"
  BY DEF TypeOK, ExecState
<1>2. Idle.pc = "idle"
  BY DEF Idle, ExecAt
<1>3. exec'.pc \in {"idle", "claim"}
  BY <1>1, <1>2 DEF Pick
<1> QED BY <1>3 DEF Pick, ExecStep, Up, Owning

\* Preparing a run keeps its row and what is known of its tool calls.
LEMMA PrepareRunPc ==
  ASSUME TypeOK, PrepareRun
  PROVE  /\ exec'.id = exec.id /\ exec'.seen = exec.seen /\ exec'.pc \in {"lock", "finish"}
         /\ exec'.pc = "running" => exec'.streaming
<1>1. exec \in ExecState
  BY DEF TypeOK
<1>2. CASE exec' = [exec EXCEPT !.pc = "lock"]
  BY <1>1, <1>2 DEF ExecState
<1>3. CASE exec' = [exec EXCEPT !.pc = "finish", !.res = NoVerdict]
  BY <1>1, <1>3 DEF ExecState
<1> QED BY <1>2, <1>3, Zenon DEF PrepareRun

\* So does starting the process, whose stream is then read.
LEMMA StartClaudePc ==
  ASSUME TypeOK, StartClaude
  PROVE  /\ exec'.id = exec.id /\ exec'.seen = exec.seen /\ exec'.pc \in {"running", "unwind"}
         /\ exec'.pc = "running" => exec'.streaming
<1>1. exec \in ExecState
  BY DEF TypeOK
<1>2. CASE exec' = [exec EXCEPT !.pc = "running", !.streaming = TRUE]
  BY <1>1, <1>2 DEF ExecState
<1>3. CASE exec' = [exec EXCEPT !.pc = "unwind", !.res = NoVerdict]
  BY <1>1, <1>3 DEF ExecState
<1> QED BY <1>2, <1>3, Zenon DEF StartClaude

\* Every step keeps the rest of the invariant.
LEMMA InvStep ==
  ASSUME IInv, [Next]_vars
  PROVE  (BootInv /\ OwnedIsRunning /\ FreshIds /\ EffectsSeen
          /\ AtMostOnce /\ RunningIsOwned /\ CurrentIsRunning)'
<1> DEFINE Rest == BootInv /\ OwnedIsRunning /\ FreshIds /\ EffectsSeen
                   /\ AtMostOnce /\ RunningIsOwned /\ CurrentIsRunning
<1> USE DEF IInv, TypeOK, BootInv, OwnedIsRunning, FreshIds, EffectsSeen, AtMostOnce,
            NeverRepeated, RunningIsOwned, CurrentIsRunning, Up, ExecStep, RunningJobs,
            Owning, Inside
<1>1. CASE ReadGate
  BY <1>1 DEF ReadGate, vars, dbVars, cfgVars, procVars, runVars, ExecState, Terminal
<1>2. CASE Pick
  <2>1. exec'.pc \notin Owning /\ boot.pc = "up"
    BY <1>2, PickPc
  <2> QED BY <1>2, <2>1 DEF Pick, vars, dbVars, cfgVars, procVars, runVars
<1>3. CASE ExecutorExits
  BY <1>3 DEF ExecutorExits, vars, dbVars, cfgVars, procVars, runVars, Off, ExecAt
<1>4. CASE PrepareRun
  <2>1. /\ exec'.id = exec.id /\ exec'.seen = exec.seen /\ exec'.pc \in {"lock", "finish"}
        /\ exec'.pc = "running" => exec'.streaming
    BY <1>4, PrepareRunPc
  <2> QED BY <1>4, <2>1 DEF PrepareRun, vars, dbVars, cfgVars, procVars, runVars
<1>5. CASE AcquireLock
  BY <1>5 DEF AcquireLock, vars, dbVars, cfgVars, procVars, runVars, ExecState, NoId
<1>6. CASE LockAbandoned
  BY <1>6 DEF LockAbandoned, vars, dbVars, cfgVars, procVars, runVars, ExecState, Terminal
<1>7. CASE StartClaude
  <2>1. /\ exec'.id = exec.id /\ exec'.seen = exec.seen /\ exec'.pc \in {"running", "unwind"}
        /\ exec'.pc = "running" => exec'.streaming
    BY <1>7, StartClaudePc
  <2> QED BY <1>7, <2>1 DEF StartClaude, vars, dbVars, cfgVars, procVars, runVars
<1>8. CASE ClaudeExits \/ HelperLetsGo
  <2>1. CASE ClaudeExits
    BY <2>1 DEF ClaudeExits, Reaped, vars, dbVars, cfgVars, procVars, runVars, ExecState, Terminal
  <2>2. CASE HelperLetsGo
    BY <2>2 DEF HelperLetsGo, Reaped, vars, dbVars, cfgVars, procVars, runVars, ExecState, Terminal
  <2> QED BY <1>8, <2>1, <2>2
<1>9. CASE ReadCancelled
  BY <1>9 DEF ReadCancelled, vars, dbVars, cfgVars, procVars, runVars, ExecState, Terminal
<1>10. CASE Unwind
  BY <1>10 DEF Unwind, vars, dbVars, cfgVars, procVars, runVars, NoCurrent, ExecState
<1>11. CASE Decide
  BY <1>11 DEF Decide, vars, dbVars, cfgVars, procVars, runVars, ExecState
<1>12. CASE ToolCall
  BY <1>12 DEF ToolCall, vars, dbVars, cfgVars, procVars, runVars, ExecState, Terminal
<1>13. CASE StreamFails \/ HelperHolds
  <2>1. CASE StreamFails
    BY <2>1 DEF StreamFails, vars, dbVars, cfgVars, procVars, runVars, ExecState, Terminal
  <2>2. CASE HelperHolds
    BY <2>2 DEF HelperHolds, vars, dbVars, cfgVars, procVars, runVars, ExecState, Terminal
  <2> QED BY <1>13, <2>1, <2>2
<1>14. ASSUME NEW g \in Loaders, ReadFile(g) \/ Compare(g) \/ Record(g) \/ ReloadSwap(g)
       PROVE  Rest'
  BY <1>14 DEF ReadFile, Compare, Record, ReloadSwap, vars, dbVars, cfgVars, procVars, runVars
<1>15. ASSUME NEW g \in Loaders, FailSelect(g) PROVE Rest'
  BY <1>15 DEF FailSelect, vars, dbVars, cfgVars, procVars, runVars
<1>16. ASSUME NEW g \in Loaders, ReloadNotify(g) PROVE Rest'
  BY <1>16 DEF ReloadNotify, vars, dbVars, cfgVars, procVars, runVars
<1>17. CASE LoadQueues
  BY <1>17 DEF LoadQueues, vars, dbVars, cfgVars, procVars, runVars
<1>18. CASE RecoverNotify
  BY <1>18 DEF RecoverNotify, vars, dbVars, cfgVars, procVars, runVars
<1>19. CASE RecoverRemoved
  BY <1>19 DEF RecoverRemoved, vars, dbVars, cfgVars, procVars, runVars, Row, Terminal, QueuedIn
<1>20. CASE StartLoops
  BY <1>20 DEF StartLoops, vars, dbVars, cfgVars, procVars, runVars, Idle, ExecAt
<1>21. CASE SetPaused
  BY <1>21 DEF SetPaused, vars, dbVars, cfgVars, procVars, runVars
<1>22. CASE EditFile
  BY <1>22 DEF EditFile, vars, dbVars, cfgVars, procVars, runVars
<1>23. CASE Stop
  BY <1>23 DEF Stop, vars, dbVars, cfgVars, procVars, runVars
<1>24. CASE Die
  BY <1>24 DEF Die, vars, dbVars, cfgVars, procVars, runVars, Off, NoCurrent, NoReload, NoReq, Down, NoId, ExecAt
<1>25. ASSUME NEW c \in Clients, CancelNotify(c) PROVE Rest'
  BY <1>25 DEF CancelNotify, vars, dbVars, cfgVars, procVars, runVars, NoReq
<1>26. ASSUME NEW c \in Clients, Disconnect(c) PROVE Rest'
  BY <1>26 DEF Disconnect, vars, dbVars, cfgVars, procVars, runVars, NoReq
<1>27. CASE UNCHANGED vars
  BY <1>27 DEF vars, dbVars, cfgVars, procVars, runVars
<1> HIDE DEF IInv, TypeOK, BootInv, OwnedIsRunning, FreshIds, EffectsSeen, AtMostOnce,
             NeverRepeated, RunningIsOwned, CurrentIsRunning, Up, ExecStep, RunningJobs,
             Owning, Inside
<1>28. CASE Claim
  BY <1>28, ClaimInv
<1>29. CASE Requeue
  BY <1>29, RequeueInv
<1>30. CASE Finish
  BY <1>30, FinishInv
<1>31. ASSUME NEW g \in Loaders, FailUpdate(g) PROVE Rest'
  BY <1>31, FailUpdateInv
<1>32. CASE RecoverRunning
  BY <1>32, RecoverRunningInv
<1>33. ASSUME NEW c \in Clients, Insert(c) PROVE Rest'
  BY <1>33, InsertInv
<1>34. ASSUME NEW c \in Clients, CancelRunning(c) PROVE Rest'
  BY <1>34, CancelRunningInv
<1>35. ASSUME NEW c \in Clients, CancelQueued(c) PROVE Rest'
  BY <1>35, CancelQueuedInv
<1>36. ASSUME NEW c \in Clients, CancelJob(c) PROVE Rest'
  BY <1>36, CancelJobInv
<1>37. ASSUME NEW c \in Clients, Submit(c) PROVE Rest'
  <2>1. PICK q \in config, p \in Priorities, k \in Keys \union {NoKey} :
          Mint(c, NewRow(q, p, k, NoId, FALSE))
    BY <1>37 DEF Submit
  <2>2. q \in Queues /\ p \in Nat /\ Up
    BY <1>37, SpoolAssumptions DEF Submit, Free, IInv, TypeOK
  <2>3. NewRow(q, p, k, NoId, FALSE) \in Row /\ NewRow(q, p, k, NoId, FALSE).st = "queued"
    BY <2>2, NewRowType
  <2> QED BY <2>1, <2>2, <2>3, MintInv
<1>38. ASSUME NEW c \in Clients, RetryJob(c) PROVE Rest'
  <2>1. PICK p \in JobIds : Mint(c, NewRow(jobs[p].q, jobs[p].pri, NoKey, p, FALSE))
    BY <1>38 DEF RetryJob
  <2>2. jobs[p].q \in Queues /\ jobs[p].pri \in Nat /\ Up
    BY <1>38 DEF RetryJob, Free, IInv, TypeOK, Row
  <2>3. /\ NewRow(jobs[p].q, jobs[p].pri, NoKey, p, FALSE) \in Row
        /\ NewRow(jobs[p].q, jobs[p].pri, NoKey, p, FALSE).st = "queued"
    BY <2>2, NewRowType
  <2> QED BY <2>1, <2>2, <2>3, MintInv
<1>39. ASSUME NEW c \in Clients, ReplyJob(c) PROVE Rest'
  <2>1. PICK p \in JobIds : Mint(c, NewRow(jobs[p].q, jobs[p].pri, NoKey, p, TRUE))
    BY <1>39 DEF ReplyJob
  <2>2. jobs[p].q \in Queues /\ jobs[p].pri \in Nat /\ Up
    BY <1>39 DEF ReplyJob, Free, IInv, TypeOK, Row
  <2>3. /\ NewRow(jobs[p].q, jobs[p].pri, NoKey, p, TRUE) \in Row
        /\ NewRow(jobs[p].q, jobs[p].pri, NoKey, p, TRUE).st = "queued"
    BY <2>2, NewRowType
  <2> QED BY <2>1, <2>2, <2>3, MintInv
<1> QED
  BY <1>1, <1>2, <1>3, <1>4, <1>5, <1>6, <1>7, <1>8, <1>9, <1>10, <1>11, <1>12, <1>13, <1>14, <1>15, <1>16, <1>17, <1>18, <1>19, <1>20, <1>21, <1>22, <1>23, <1>24, <1>25, <1>26, <1>27, <1>28, <1>29, <1>30, <1>31, <1>32, <1>33, <1>34, <1>35, <1>36, <1>37, <1>38, <1>39
     DEF Next, Loop, Run, Wait, Process, Reload, Boot, Environment, Handler, Request

\* The invariant holds when the process first starts.
LEMMA InitInv == Init => IInv
<1> SUFFICES ASSUME Init PROVE IInv
  OBVIOUS
<1> USE ConstantTypes, SpoolAssumptions
<1>1. NoReq.pc = "idle" /\ Blank.st = "none" /\ Off.pc = "off" /\ NoCurrent.id = NoId
      /\ Down.pc = "down"
  BY DEF NoReq, Blank, RowWith, Off, ExecAt, NoCurrent, Down
<1>2. outbox \in [JobIds -> Seq(Terminal)] /\ nextId \in JobIds \union {NoId}
  BY DEF Init, NoId
<1>3. TypeOK
  BY <1>2 DEF Init, TypeOK
<1>4. BootInv /\ OwnedIsRunning
  BY <1>1 DEF Init, BootInv, OwnedIsRunning, Up, Owning
<1>5. FreshIds
  BY <1>1 DEF Init, FreshIds
<1>6. EffectsSeen /\ AtMostOnce
  BY <1>1 DEF Init, EffectsSeen, AtMostOnce, NeverRepeated, Owning
<1>7. RunningIsOwned /\ CurrentIsRunning
  BY <1>1 DEF Init, RunningIsOwned, CurrentIsRunning, Up
<1> QED BY <1>3, <1>4, <1>5, <1>6, <1>7 DEF IInv

\* The inductive invariant holds throughout.
LEMMA Invariance == Spec => []IInv
<1>1. IInv /\ [Next]_vars => IInv'
  BY TypeStep, InvStep DEF IInv
<1> QED BY <1>1, InitInv, PTL DEF Spec

-----------------------------------------------------------------------------

\* Every table and every goroutine's local state keeps its type.
THEOREM TypeCorrect == Spec => []TypeOK
<1>1. IInv => TypeOK
  BY DEF IInv
<1> QED BY <1>1, Invariance, PTL

\* A job whose process made a tool call never waits in a queue again: neither
\* recovery, nor a requeue, nor a retry repeats its side effects, with any number
\* of jobs, clients, crashes and edits, as long as its stream is read to the end.
THEOREM SideEffectsOnce == Spec => []AtMostOnce
<1>1. IInv => AtMostOnce
  BY DEF IInv
<1> QED BY <1>1, Invariance, PTL

\* While the process is up no row is running without the executor working on it,
\* so at most one is.
THEOREM NoOrphanedRun == Spec => []RunningIsOwned
<1>1. IInv => RunningIsOwned
  BY DEF IInv
<1> QED BY <1>1, Invariance, PTL

\* The job Executor.Cancel may flag is the running one, under the claude lock.
THEOREM CancelTargetsRunning == Spec => []CurrentIsRunning
<1>1. IInv => CurrentIsRunning
  BY DEF IInv
<1> QED BY <1>1, Invariance, PTL

\* A step that writes a status writes one that is not terminal yet.
LEMMA TerminalStep ==
  ASSUME IInv, [Next]_vars, NEW j \in JobIds, jobs[j].st \in Terminal
  PROVE  jobs'[j].st = jobs[j].st
<1>0. jobs[j].st \notin {"none", "queued", "running"} /\ jobs \in [JobIds -> Row]
  BY DEF Terminal, IInv, TypeOK
<1>1. CASE UNCHANGED jobs
  BY <1>1
<1>2. CASE Claim
  <2>1. ASSUME NEW k \in JobIds, NEW q, IsHead(k, q) PROVE k # j
    BY <1>0, <2>1 DEF IsHead, QueuedIn
  <2> QED BY <1>0, <1>2, <2>1 DEF Claim
<1>3. CASE Requeue
  <2>1. exec.id # j
    BY <1>0, <1>3 DEF Requeue, ExecStep, IInv, OwnedIsRunning, Owning
  <2> QED BY <1>0, <1>3, <2>1 DEF Requeue
<1>4. CASE Finish
  <2>1. exec.id # j
    BY <1>0, <1>4 DEF Finish, ExecStep, IInv, OwnedIsRunning, Owning
  <2> QED BY <1>0, <1>4, <2>1 DEF Finish
<1>5. ASSUME NEW g \in Loaders, FailUpdate(g) PROVE jobs'[j].st = jobs[j].st
  BY <1>0, <1>5 DEF FailUpdate
<1>6. CASE RecoverRunning
  BY <1>0, <1>6 DEF RecoverRunning
<1>7. CASE RecoverRemoved
  BY <1>0, <1>7 DEF RecoverRemoved, QueuedIn
<1>8. ASSUME NEW c \in Clients, Insert(c) PROVE jobs'[j].st = jobs[j].st
  <2>1. req[c].id # j
    BY <1>0, <1>8 DEF Insert, IInv, FreshIds
  <2> QED BY <1>0, <1>8, <2>1 DEF Insert
<1>9. ASSUME NEW c \in Clients, CancelQueued(c) PROVE jobs'[j].st = jobs[j].st
  BY <1>0, <1>9 DEF CancelQueued
<1>10. CASE ReadGate \/ Pick \/ ExecutorExits \/ PrepareRun \/ AcquireLock \/ LockAbandoned
            \/ StartClaude \/ ClaudeExits \/ HelperLetsGo \/ ReadCancelled \/ Unwind \/ Decide
            \/ Process
  BY <1>1, <1>10 DEF ReadGate, Pick, ExecutorExits, PrepareRun, AcquireLock, LockAbandoned,
       StartClaude, ClaudeExits, HelperLetsGo, Reaped, ReadCancelled, Unwind, Decide, Process,
       ToolCall, StreamFails, HelperHolds, dbVars
<1>11. CASE LoadQueues \/ RecoverNotify \/ StartLoops \/ Environment
  BY <1>1, <1>11 DEF LoadQueues, RecoverNotify, StartLoops, Environment, SetPaused, EditFile,
       Stop, Die, dbVars
<1>14. ASSUME NEW g \in Loaders, ReadFile(g) \/ Compare(g) \/ Record(g) \/ ReloadSwap(g)
                                 \/ FailSelect(g) \/ ReloadNotify(g)
       PROVE  jobs'[j].st = jobs[j].st
  BY <1>1, <1>14 DEF ReadFile, Compare, Record, ReloadSwap, FailSelect, ReloadNotify, dbVars
<1>12. ASSUME NEW c \in Clients, CancelRunning(c) \/ CancelNotify(c) \/ Request(c)
       PROVE  jobs'[j].st = jobs[j].st
  BY <1>1, <1>12 DEF CancelRunning, CancelNotify, Request, Submit, RetryJob, ReplyJob, Mint,
       CancelJob, Disconnect, dbVars
<1>13. CASE UNCHANGED vars
  BY <1>1, <1>13 DEF vars, dbVars
<1> QED
  BY <1>2, <1>3, <1>4, <1>5, <1>6, <1>7, <1>8, <1>9, <1>10, <1>11, <1>12, <1>13, <1>14
     DEF Next, Loop, Run, Wait, Reload, Boot, Handler

\* A terminal status is final.  finish names its row by id alone, so this rests
\* on the row being the executor's own from Claim on (OwnedIsRunning).
THEOREM StatusFinal == Spec => TerminalIsFinal
<1>1. IInv /\ [Next]_vars =>
        [\A j \in JobIds : jobs[j].st \in Terminal => jobs'[j].st = jobs[j].st]_vars
  BY TerminalStep
<1> QED BY <1>1, Invariance, PTL DEF Spec, TerminalIsFinal

=============================================================================
