------------------------------ MODULE JobProofs ------------------------------
(***************************************************************************)
(* Further theorems about Spool, from the inductive invariant of           *)
(* SpoolProofs: what a row keeps for life, whose child a job is, and the   *)
(* events the outbox holds for it.                                         *)
(***************************************************************************)
EXTENDS SpoolProofs

\* A row that waits to be inserted as a child: its parent ended, in the same queue,
\* and left a session if it is to be resumed.
ParentOK(row) ==
  LET p == jobs[row.par]
  IN /\ p.st \in Retryable /\ p.q = row.q
     /\ row.resume => p.st = "needs_input" /\ p.sess

\* The parent a request read is still what it was when the child is inserted.
ChildInv ==
  /\ ChildrenOfRetryable
  /\ \A c \in Clients : req[c].pc = "insert" /\ req[c].row.par # NoId => ParentOK(req[c].row)

\* Nothing is announced of a job that has not ended.
SilentUntilEnd == \A j \in JobIds : jobs[j].st \notin Terminal => outbox[j] = <<>>

\* A job whose queue was removed while two reloads overlapped may be announced again.
MayRepeat(j) == overlap /\ jobs[j].q \in absent

\* A request about to announce a cancellation is the only one to do so.
CancelOwed ==
  /\ \A c \in Clients : req[c].pc = "notify" =>
       /\ jobs[req[c].id].st = "cancelled"
       /\ outbox[req[c].id] = <<>> \/ MayRepeat(req[c].id)
  /\ \A c, d \in Clients :
       c # d /\ req[c].pc = "notify" /\ req[d].pc = "notify" => req[c].id # req[d].id

\* A call of ReloadIfChanged past its swap.
Sweeping == {"select", "update", "notify"}

\* What a call has found of the queues that disappear, so far.
Found(r) ==
  /\ r.pc \notin Sweeping => r.q = {} /\ r.ids = {}
  /\ r.pc \in {"idle", "compare", "record"} => r.todo = {}
  /\ r.pc = "swap" => r.todo \intersect r.buf = {}

\* All it still has to deal with are queues of qs and their jobs in the table.
Within(r, qs, table) ==
  r.pc \in Sweeping =>
    /\ r.todo \subseteq qs /\ r.q \subseteq qs
    /\ \A j \in r.ids : table[j].st # "none" /\ table[j].q \in qs

\* The queues a reload fails the jobs of are known as absent, and, reloads being one
\* after the other, are not in the config: what it announces goes to nobody.
ReloadRemoved ==
  \A g \in Loaders :
    /\ Found(reload[g])
    /\ Within(reload[g], absent, jobs)
    /\ ~overlap => Within(reload[g], Queues \ config, jobs)

\* Before any overlap at most one call is under way.
OneReload ==
  ~overlap => \A g, h \in Loaders : g # h => reload[g].pc = "idle" \/ reload[h].pc = "idle"

\* Recovery announces the jobs it interrupted, which nobody has announced, and jobs
\* of queues that are gone.
RecoveryOwed ==
  boot.pc = "notify" => \A j \in boot.ids :
    /\ Exists(j)
    /\ jobs[j].q \in config => jobs[j].st = "interrupted" /\ outbox[j] = <<>>

\* A queue the config lacks is known as absent.
AbsentKnown == Queues \ config \subseteq absent

EventInv ==
  /\ SilentUntilEnd /\ EventMatchesStatus /\ FinishedHasEvent
  /\ CancelOwed /\ ReloadRemoved /\ OneReload /\ RecoveryOwed /\ AbsentKnown

-----------------------------------------------------------------------------
(* What a row keeps *)

\* The columns no statement but the INSERT writes.
Same(r, s) == s.q = r.q /\ s.key = r.key /\ s.par = r.par /\ s.resume = r.resume

\* Neither a change of status
LEMMA SameStatus ==
  ASSUME NEW r \in Row, NEW st \in JobStatus
  PROVE  Same(r, [r EXCEPT !.st = st]) /\ [r EXCEPT !.st = st].st = st
BY DEF Row, Same

\* nor a claim writes them.
LEMMA SameClaimed ==
  ASSUME NEW r \in Row
  PROVE  LET s == [r EXCEPT !.st = "running", !.att = @ + 1]
         IN Same(r, s) /\ s.st = "running"
<1>1. \A n : LET s == [r EXCEPT !.st = "running", !.att = n] IN Same(r, s) /\ s.st = "running"
  BY DEF Row, Same
<1> QED BY <1>1

\* A step on rows in use, and what it makes of one of them.
RowKept(j) ==
  /\ Same(jobs[j], jobs'[j]) /\ jobs'[j].st # "none"
  /\ jobs[j].st \in Terminal => jobs'[j] = jobs[j]

\* Claim takes a queued row.
LEMMA ClaimRow ==
  ASSUME IInv, Claim, NEW j \in JobIds
  PROVE  jobs'[j] = jobs[j] \/ (jobs[j].st = "queued" /\ Same(jobs[j], jobs'[j])
                                /\ jobs'[j].st = "running")
<1>0. jobs \in [JobIds -> Row]
  BY DEF IInv, TypeOK
<1>1. CASE UNCHANGED jobs
  BY <1>1
<1>2. ASSUME NEW k \in JobIds, NEW q, IsHead(k, q),
             jobs' = [jobs EXCEPT ![k].st = "running", ![k].att = @ + 1]
      PROVE  jobs'[j] = jobs[j] \/ (jobs[j].st = "queued" /\ Same(jobs[j], jobs'[j])
                                    /\ jobs'[j].st = "running")
  <2>1. jobs[k].st = "queued"
    BY <1>2 DEF IsHead, QueuedIn
  <2> DEFINE s == [jobs[k] EXCEPT !.st = "running", !.att = @ + 1]
  <2>2. Same(jobs[k], s) /\ s.st = "running"
    BY <1>0, SameClaimed
  <2>3. jobs' = [jobs EXCEPT ![k] = s]
    BY <1>0, <1>2
  <2> HIDE DEF s
  <2> QED BY <1>0, <2>1, <2>2, <2>3
<1> QED BY <1>1, <1>2, Zenon DEF Claim

\* Requeue and Finish write the executor's row, which is running.
LEMMA RequeueRow ==
  ASSUME IInv, Requeue, NEW j \in JobIds
  PROVE  jobs'[j] = jobs[j] \/ (jobs[j].st = "running" /\ Same(jobs[j], jobs'[j])
                                /\ jobs'[j].st = "queued")
<1>0. jobs \in [JobIds -> Row] /\ "queued" \in JobStatus
  BY DEF IInv, TypeOK, JobStatus
<1>1. exec.id \in JobIds /\ jobs[exec.id].st = "running"
  BY DEF Requeue, ExecStep, IInv, OwnedIsRunning, Owning
<1> DEFINE s == [jobs[exec.id] EXCEPT !.st = "queued"]
<1>2. Same(jobs[exec.id], s) /\ s.st = "queued"
  BY <1>0, <1>1, SameStatus
<1>3. UNCHANGED jobs \/ jobs' = [jobs EXCEPT ![exec.id] = s]
  BY <1>0, <1>1 DEF Requeue
<1> HIDE DEF s
<1> QED BY <1>0, <1>1, <1>2, <1>3

LEMMA FinishRow ==
  ASSUME IInv, Finish, NEW j \in JobIds
  PROVE  jobs'[j] = jobs[j]
         \/ (jobs[j].st = "running" /\ Same(jobs[j], jobs'[j]) /\ jobs'[j].st = exec.res.st)
<1>0. jobs \in [JobIds -> Row]
  BY DEF IInv, TypeOK
<1>1. exec.id \in JobIds /\ jobs[exec.id].st = "running"
  BY DEF Finish, ExecStep, IInv, OwnedIsRunning, Owning
<1> DEFINE s == [jobs[exec.id] EXCEPT !.st = exec.res.st, !.sess = exec.res.sess]
<1>2. Same(jobs[exec.id], s) /\ s.st = exec.res.st
  <2>1. jobs[exec.id] \in Row
    BY <1>0, <1>1
  <2> QED BY <2>1 DEF Row, Same
<1>3. UNCHANGED jobs \/ jobs' = [jobs EXCEPT ![exec.id] = s]
  <2>1. ASSUME jobs' = [jobs EXCEPT ![exec.id].st = exec.res.st, ![exec.id].sess = exec.res.sess]
        PROVE  jobs' = [jobs EXCEPT ![exec.id] = s]
    BY <1>0, <1>1, <2>1
  <2> HIDE DEF s
  <2> QED BY <2>1 DEF Finish
<1> HIDE DEF s
<1> QED BY <1>0, <1>1, <1>2, <1>3

\* The statements of reload, recovery and cancellation.
LEMMA SweepRow ==
  ASSUME IInv, NEW j \in JobIds,
         \/ RecoverRunning \/ RecoverRemoved \/ \E g \in Loaders : FailUpdate(g)
         \/ \E c \in Clients : CancelQueued(c)
  PROVE  jobs'[j] = jobs[j] \/ (jobs[j].st \in {"queued", "running"} /\ Same(jobs[j], jobs'[j])
                                /\ jobs'[j].st \in {"failed", "interrupted", "cancelled"})
<1>0. jobs \in [JobIds -> Row] /\ {"failed", "interrupted", "cancelled"} \subseteq JobStatus
  BY DEF IInv, TypeOK, JobStatus, Terminal
<1>1. \A st \in {"failed", "interrupted", "cancelled"} :
        Same(jobs[j], [jobs[j] EXCEPT !.st = st]) /\ [jobs[j] EXCEPT !.st = st].st = st
  BY <1>0, SameStatus
<1>2. \/ jobs'[j] = jobs[j]
      \/ jobs[j].st \in {"queued", "running"}
         /\ \E st \in {"failed", "interrupted", "cancelled"} : jobs'[j] = [jobs[j] EXCEPT !.st = st]
  <2>1. ASSUME NEW g \in Loaders, FailUpdate(g)
        PROVE  \/ jobs'[j] = jobs[j]
               \/ jobs[j].st = "queued" /\ jobs'[j] = [jobs[j] EXCEPT !.st = "failed"]
    BY <2>1 DEF FailUpdate
  <2>2. CASE RecoverRunning
    BY <2>2 DEF RecoverRunning
  <2>3. CASE RecoverRemoved
    BY <2>3 DEF RecoverRemoved, QueuedIn
  <2>4. ASSUME NEW c \in Clients, CancelQueued(c)
        PROVE  \/ jobs'[j] = jobs[j]
               \/ jobs[j].st = "queued" /\ jobs'[j] = [jobs[j] EXCEPT !.st = "cancelled"]
    BY <1>0, <2>4 DEF CancelQueued
  <2> QED BY <2>1, <2>2, <2>3, <2>4
<1> QED BY <1>1, <1>2

\* Insert fills the row of its id, which had none, unless the key is taken.
LEMMA InsertRow ==
  ASSUME IInv, NEW c \in Clients, Insert(c), NEW j \in JobIds
  PROVE  \/ jobs'[j] = jobs[j]
         \/ /\ j = req[c].id /\ jobs[j].st = "none" /\ jobs'[j] = req[c].row
            /\ ~KeyTaken(req[c].row) /\ req[c].row.st = "queued"
<1>1. jobs \in [JobIds -> Row]
  BY DEF IInv, TypeOK
<1>2. jobs[req[c].id].st = "none" /\ req[c].id \in JobIds /\ req[c].row.st = "queued"
  BY DEF Insert, IInv, FreshIds
<1> QED BY <1>1, <1>2 DEF Insert

\* No other step writes a row.
LEMMA OtherRow ==
  ASSUME [Next]_vars, ~Claim, ~Requeue, ~Finish, ~RecoverRunning, ~RecoverRemoved,
         \A g \in Loaders : ~FailUpdate(g),
         \A c \in Clients : ~CancelQueued(c) /\ ~Insert(c)
  PROVE  UNCHANGED jobs
<1>1. CASE ReadGate \/ Pick \/ ExecutorExits \/ PrepareRun \/ AcquireLock \/ LockAbandoned
            \/ StartClaude \/ ClaudeExits \/ HelperLetsGo \/ ReadCancelled \/ Unwind \/ Decide
            \/ Process
  BY <1>1, Zenon DEF ReadGate, Pick, ExecutorExits, PrepareRun, AcquireLock, LockAbandoned,
       StartClaude, ClaudeExits, HelperLetsGo, Reaped, ReadCancelled, Unwind, Decide, Process,
       ToolCall, StreamFails, HelperHolds, dbVars
<1>2. CASE LoadQueues \/ RecoverNotify \/ StartLoops \/ Environment
  BY <1>2 DEF LoadQueues, RecoverNotify, StartLoops, Environment, SetPaused, EditFile, Stop, Die,
       dbVars
<1>5. ASSUME NEW g \in Loaders, ReadFile(g) \/ Compare(g) \/ Record(g) \/ ReloadSwap(g)
                                \/ FailSelect(g) \/ ReloadNotify(g)
      PROVE  UNCHANGED jobs
  BY <1>5 DEF ReadFile, Compare, Record, ReloadSwap, FailSelect, ReloadNotify, dbVars
<1>3. ASSUME NEW c \in Clients, CancelRunning(c) \/ CancelNotify(c) \/ Request(c)
       PROVE  UNCHANGED jobs
  BY <1>3 DEF CancelRunning, CancelNotify, Request, Submit, RetryJob, ReplyJob, Mint,
       CancelJob, Disconnect, dbVars
<1>4. CASE UNCHANGED vars
  BY <1>4 DEF vars, dbVars
<1> QED
  BY <1>1, <1>2, <1>3, <1>4, <1>5 DEF Next, Loop, Run, Wait, Reload, Boot, Handler

\* A row that exists keeps what it was inserted with, and one that ended is never
\* written again.
LEMMA RowsKept ==
  ASSUME IInv, [Next]_vars, NEW j \in JobIds, Exists(j)
  PROVE  RowKept(j)
<1> DEFINE Went(from, to) == jobs[j].st \in from /\ Same(jobs[j], jobs'[j]) /\ jobs'[j].st \in to
<1>0. /\ jobs[j].st # "none" /\ Same(jobs[j], jobs[j])
      /\ Terminal \intersect {"queued", "running", "none"} = {}
  BY DEF Exists, Same, Terminal
<1>1. jobs'[j] = jobs[j] \/ Went({"queued", "running"}, JobStatus)
  <2>1. CASE Claim
    BY <2>1, ClaimRow DEF JobStatus
  <2>2. CASE Requeue
    BY <2>2, RequeueRow DEF JobStatus
  <2>3. CASE Finish
    <3>1. exec.res.st \in JobStatus
      BY DEF IInv, TypeOK, ExecState, Verdict, JobStatus
    <3> QED BY <2>3, <3>1, FinishRow
  <2>4. CASE \/ RecoverRunning \/ RecoverRemoved \/ \E g \in Loaders : FailUpdate(g)
             \/ \E c \in Clients : CancelQueued(c)
    BY <2>4, SweepRow DEF JobStatus, Terminal
  <2>5. ASSUME NEW c \in Clients, Insert(c) PROVE jobs'[j] = jobs[j]
    BY <1>0, <2>5, InsertRow
  <2> QED BY <2>1, <2>2, <2>3, <2>4, <2>5, OtherRow
<1>2. "none" \notin JobStatus
  BY DEF JobStatus, Terminal
<1> QED BY <1>0, <1>1, <1>2 DEF RowKept

-----------------------------------------------------------------------------
(* Keys, children and recovery *)

\* A step that inserts nothing leaves the set of rows alone.
LEMMA NoInsert ==
  ASSUME IInv, [Next]_vars, \A c \in Clients : ~Insert(c), NEW j \in JobIds, ~Exists(j)
  PROVE  jobs'[j] = jobs[j]
<1>1. jobs[j].st = "none"
  BY DEF Exists
<1> QED BY <1>1, ClaimRow, RequeueRow, FinishRow, SweepRow, OtherRow

\* Two rows of one queue never share a key.
LEMMA KeyStep ==
  ASSUME IInv, KeysUnique, [Next]_vars
  PROVE  KeysUnique'
<1> SUFFICES ASSUME NEW i \in JobIds, NEW j \in JobIds, i # j,
                    jobs'[i].st # "none", jobs'[j].st # "none",
                    jobs'[i].q = jobs'[j].q, jobs'[i].key = jobs'[j].key
             PROVE  jobs'[i].key = NoKey
  BY DEF KeysUnique, Exists
<1>0. \A k \in JobIds : jobs[k].st # "none" =>
        jobs'[k].q = jobs[k].q /\ jobs'[k].key = jobs[k].key
  BY RowsKept DEF RowKept, Same, Exists
<1>1. CASE jobs[i].st # "none" /\ jobs[j].st # "none"
  BY <1>0, <1>1 DEF KeysUnique, Exists
<1>2. CASE \A c \in Clients : ~Insert(c)
  BY <1>1, <1>2, NoInsert DEF Exists
<1>3. ASSUME NEW c \in Clients, Insert(c), jobs[i].st = "none" \/ jobs[j].st = "none"
      PROVE  jobs'[i].key = NoKey
  <2>1. ~KeyTaken(req[c].row)
    BY <1>3, InsertRow
  <2>2. \A k \in JobIds : jobs[k].st = "none" /\ jobs'[k].st # "none" =>
          k = req[c].id /\ jobs'[k] = req[c].row
    BY <1>3, InsertRow
  <2>3. \A k \in JobIds : jobs[k].st # "none" /\ req[c].row.key # NoKey =>
          jobs[k].q # req[c].row.q \/ jobs[k].key # req[c].row.key
    BY <2>1 DEF KeyTaken, Exists
  <2>4. ASSUME NEW k \in JobIds, NEW l \in JobIds, k # l, jobs[k].st = "none",
               jobs'[k].st # "none", jobs'[l].st # "none",
               jobs'[k].q = jobs'[l].q, jobs'[k].key = jobs'[l].key
        PROVE  jobs'[k].key = NoKey
    <3>1. jobs'[k] = req[c].row /\ jobs[l].st # "none"
      BY <2>2, <2>4
    <3>2. jobs[l].q = req[c].row.q /\ jobs[l].key = req[c].row.key
      BY <1>0, <2>4, <3>1
    <3> QED BY <2>3, <3>1, <3>2
  <2> QED BY <1>3, <2>4
<1> QED BY <1>1, <1>2, <1>3

\* Two submissions with one idempotency key make one job, for any number of
\* concurrent clients and whatever became of the first job meanwhile.
THEOREM OneJobPerKey == Spec => []KeysUnique
<1>1. Init => KeysUnique
  BY DEF Init, KeysUnique, Exists, Blank, RowWith
<1>2. IInv /\ KeysUnique /\ [Next]_vars => KeysUnique'
  BY KeyStep
<1> QED BY <1>1, <1>2, Invariance, PTL DEF Spec

\* A parent that ended is still what it was.
LEMMA ParentStays ==
  ASSUME IInv, [Next]_vars, NEW row, row.par \in JobIds, ParentOK(row)
  PROVE  LET p == jobs'[row.par]
         IN /\ p.st \in Retryable /\ p.q = row.q
            /\ row.resume => p.st = "needs_input" /\ p.sess
<1>1. jobs[row.par].st \in Terminal /\ jobs[row.par].st # "none"
  BY DEF ParentOK, Retryable, Terminal
<1>2. jobs'[row.par] = jobs[row.par]
  BY <1>1, RowsKept DEF RowKept, Exists
<1> QED BY <1>2 DEF ParentOK

\* A request that starts to insert a child has checked its parent in the same step.
LEMMA NewChildOK ==
  ASSUME IInv, [Next]_vars, NEW c \in Clients, req'[c].pc = "insert", req'[c].row.par # NoId
  PROVE  req'[c] = req[c] \/ (ParentOK(req'[c].row) /\ UNCHANGED jobs)
<1>0. req \in [Clients -> ReqState] /\ NoReq.pc # "insert"
  BY DEF IInv, TypeOK, NoReq
<1>1. CASE UNCHANGED req
  BY <1>1
<1>2. ASSUME NEW d \in Clients, NEW r, r.pc # "insert", req' = [req EXCEPT ![d] = r]
      PROVE  req'[c] = req[c]
  BY <1>0, <1>2
<1>3. ASSUME NEW d \in Clients, Insert(d) \/ CancelNotify(d) \/ Disconnect(d)
      PROVE  req'[c] = req[c]
  BY <1>0, <1>2, <1>3 DEF Insert, CancelNotify, Disconnect
<1>4. ASSUME NEW d \in Clients, CancelRunning(d) \/ CancelQueued(d)
      PROVE  req'[c] = req[c]
  <2>1. \A pc \in {"refused", "notify"} : [req[d] EXCEPT !.pc = pc].pc # "insert"
    BY <1>0 DEF ReqState
  <2>2. CASE req' = [req EXCEPT ![d] = NoReq]
    BY <1>0, <1>2, <2>2
  <2>3. CASE \E pc \in {"refused", "notify"} : req' = [req EXCEPT ![d].pc = pc]
    BY <1>0, <2>1, <2>3
  <2> QED BY <1>4, <2>2, <2>3 DEF CancelRunning, CancelQueued
<1>5. ASSUME NEW d \in Clients, CancelJob(d) PROVE req'[c] = req[c]
  BY <1>0, <1>5 DEF CancelJob
<1>6. ASSUME NEW d \in Clients, NEW row, Mint(d, row), row.par # NoId => ParentOK(row)
      PROVE  req'[c] = req[c] \/ (ParentOK(req'[c].row) /\ UNCHANGED jobs)
  BY <1>0, <1>6 DEF Mint, dbVars
<1>7. ASSUME NEW d \in Clients, Submit(d)
      PROVE  req'[c] = req[c] \/ (ParentOK(req'[c].row) /\ UNCHANGED jobs)
  <2>1. PICK row : Mint(d, row) /\ row.par = NoId
    BY <1>7 DEF Submit, NewRow, RowWith
  <2> QED BY <1>6, <2>1
<1>8. ASSUME NEW d \in Clients, RetryJob(d)
      PROVE  req'[c] = req[c] \/ (ParentOK(req'[c].row) /\ UNCHANGED jobs)
  <2>1. PICK p \in JobIds : /\ jobs[p].st \in Retryable
                            /\ Mint(d, NewRow(jobs[p].q, jobs[p].pri, NoKey, p, FALSE))
    BY <1>8 DEF RetryJob
  <2>2. ParentOK(NewRow(jobs[p].q, jobs[p].pri, NoKey, p, FALSE))
    BY <2>1 DEF ParentOK, NewRow, RowWith
  <2> QED BY <1>6, <2>1, <2>2
<1>9. ASSUME NEW d \in Clients, ReplyJob(d)
      PROVE  req'[c] = req[c] \/ (ParentOK(req'[c].row) /\ UNCHANGED jobs)
  <2>1. PICK p \in JobIds : /\ jobs[p].st = "needs_input" /\ jobs[p].sess
                            /\ Mint(d, NewRow(jobs[p].q, jobs[p].pri, NoKey, p, TRUE))
    BY <1>9, Zenon DEF ReplyJob
  <2>2. ParentOK(NewRow(jobs[p].q, jobs[p].pri, NoKey, p, TRUE))
    BY <2>1 DEF ParentOK, NewRow, RowWith, Retryable
  <2> QED BY <1>6, <2>1, <2>2
<1>10. CASE Die
  BY <1>0, <1>10 DEF Die
<1>11. CASE Loop \/ Run \/ Wait \/ Process
  BY <1>1, <1>11, Zenon DEF Loop, Run, Wait, Process, ReadGate, Pick, Claim, ExecutorExits,
       PrepareRun, AcquireLock, LockAbandoned, StartClaude, ClaudeExits, HelperLetsGo, Reaped,
       ReadCancelled, Unwind, Decide, Requeue, Finish, ToolCall, StreamFails, HelperHolds
<1>12. CASE Boot \/ SetPaused \/ EditFile \/ Stop
  BY <1>1, <1>12 DEF Boot, LoadQueues, RecoverRunning, RecoverNotify, RecoverRemoved, StartLoops,
       SetPaused, EditFile, Stop
<1>14. ASSUME NEW g \in Loaders, Reload(g) PROVE req'[c] = req[c]
  BY <1>1, <1>14 DEF Reload, ReadFile, Compare, Record, ReloadSwap, FailSelect, FailUpdate,
       ReloadNotify
<1>13. CASE UNCHANGED vars
  BY <1>1, <1>13 DEF vars
<1> QED
  BY <1>3, <1>4, <1>5, <1>7, <1>8, <1>9, <1>10, <1>11, <1>12, <1>13, <1>14
     DEF Next, Environment, Handler, Request

\* Children keep parents that may have them.
LEMMA ChildStep ==
  ASSUME IInv, ChildInv, [Next]_vars
  PROVE  ChildInv'
<1>0. /\ jobs \in [JobIds -> Row] /\ req \in [Clients -> ReqState]
      /\ jobs' \in [JobIds -> Row]
  BY TypeStep DEF IInv, TypeOK
<1>2. ASSUME NEW j \in JobIds, jobs'[j].st # "none", jobs'[j].par # NoId
      PROVE  ParentOK(jobs[j])'
  <2>1. CASE jobs[j].st # "none"
    <3>1. Same(jobs[j], jobs'[j])
      BY <2>1, RowsKept DEF RowKept, Exists
    <3>2. jobs[j].par # NoId /\ jobs[j].par \in JobIds
      BY <1>0, <1>2, <3>1 DEF Same, Row
    <3>3. ParentOK(jobs[j])
      BY <2>1, <3>2 DEF ChildInv, ChildrenOfRetryable, ParentOK, Exists
    <3>4. LET p == jobs'[jobs[j].par]
          IN /\ p.st \in Retryable /\ p.q = jobs[j].q
             /\ jobs[j].resume => p.st = "needs_input" /\ p.sess
      BY <3>2, <3>3, ParentStays
    <3> QED BY <3>1, <3>4 DEF ParentOK, Same
  <2>2. CASE jobs[j].st = "none"
    <3>1. PICK c \in Clients : Insert(c) /\ jobs'[j] = req[c].row
      BY <1>2, <2>2, NoInsert, InsertRow DEF Exists
    <3>2. req[c].row \in Row /\ req[c].pc = "insert"
      BY <1>0, <3>1 DEF Insert, ReqState
    <3>3. req[c].row.par # NoId /\ req[c].row.par \in JobIds
      BY <1>2, <3>1, <3>2 DEF Row
    <3>4. ParentOK(req[c].row)
      BY <3>2, <3>3 DEF ChildInv
    <3>5. LET p == jobs'[req[c].row.par]
          IN /\ p.st \in Retryable /\ p.q = req[c].row.q
             /\ req[c].row.resume => p.st = "needs_input" /\ p.sess
      BY <3>3, <3>4, ParentStays
    <3> QED BY <3>1, <3>5 DEF ParentOK
  <2> QED BY <2>1, <2>2
<1>3. ASSUME NEW c \in Clients, req'[c].pc = "insert", req'[c].row.par # NoId
      PROVE  ParentOK(req[c].row)'
  <2>1. CASE req'[c] = req[c]
    <3>1. req[c].row.par \in JobIds
      BY <1>0, <1>3, <2>1 DEF ReqState, Row
    <3>2. ParentOK(req[c].row)
      BY <1>3, <2>1 DEF ChildInv
    <3>3. LET p == jobs'[req[c].row.par]
          IN /\ p.st \in Retryable /\ p.q = req[c].row.q
             /\ req[c].row.resume => p.st = "needs_input" /\ p.sess
      BY <3>1, <3>2, ParentStays
    <3> QED BY <2>1, <3>3 DEF ParentOK
  <2>2. CASE ParentOK(req'[c].row) /\ UNCHANGED jobs
    BY <2>2 DEF ParentOK
  <2> QED BY <1>3, <2>1, <2>2, NewChildOK
<1> QED BY <1>2, <1>3 DEF ChildInv, ChildrenOfRetryable, ParentOK, Exists

\* A retry or a reply always follows a job that may be retried or replied to, and
\* keeps it: the parent was read before the child's row is written, and no crash,
\* race or reload changes it in between.
THEOREM ChildFollowsParent == Spec => []ChildrenOfRetryable
<1>1. Init => ChildInv
  BY DEF Init, ChildInv, ChildrenOfRetryable, Exists, Blank, RowWith, NoReq
<1>2. IInv /\ ChildInv /\ [Next]_vars => ChildInv'
  BY ChildStep
<1>3. ChildInv => ChildrenOfRetryable
  BY DEF ChildInv
<1> QED BY <1>1, <1>2, <1>3, Invariance, PTL DEF Spec

\* Only StartLoops lets the process come up.
LEMMA UpStep ==
  ASSUME IInv, [Next]_vars, ~Up, Up'
  PROVE  StartLoops
<1>1. boot \in BootState
  BY DEF IInv, TypeOK
<1>2. boot'.pc = "up" /\ boot.pc # "up"
  BY DEF Up
<1>3. CASE LoadQueues \/ RecoverRunning \/ Die
  BY <1>2, <1>3 DEF LoadQueues, RecoverRunning, Die, Down
<1>4. CASE RecoverNotify \/ RecoverRemoved
  BY <1>1, <1>2, <1>4 DEF RecoverNotify, RecoverRemoved, BootState
<1>5. CASE Loop \/ Run \/ Wait \/ Process
  BY <1>2, <1>5, Zenon DEF Loop, Run, Wait, Process, ReadGate, Pick, Claim, ExecutorExits,
       PrepareRun, AcquireLock, LockAbandoned, StartClaude, ClaudeExits, HelperLetsGo, Reaped,
       ReadCancelled, Unwind, Decide, Requeue, Finish, ToolCall, StreamFails, HelperHolds, procVars
<1>6. CASE SetPaused \/ EditFile \/ Stop
  BY <1>2, <1>6 DEF SetPaused, EditFile, Stop, procVars
<1>9. ASSUME NEW g \in Loaders, Reload(g) PROVE FALSE
  BY <1>2, <1>9 DEF Reload, ReadFile, Compare, Record, ReloadSwap, FailSelect, FailUpdate,
       ReloadNotify, procVars
<1>7. ASSUME NEW c \in Clients, Handler(c) \/ Request(c) PROVE FALSE
  BY <1>2, <1>7 DEF Handler, Request, Insert, CancelRunning, CancelQueued, CancelNotify, Submit,
       RetryJob, ReplyJob, Mint, CancelJob, Disconnect, procVars
<1>8. CASE UNCHANGED vars
  BY <1>2, <1>8 DEF vars, procVars
<1> QED BY <1>3, <1>4, <1>5, <1>6, <1>7, <1>8, <1>9 DEF Next, Boot, Environment

\* The loops start on a reconciled table: nothing is running and nothing waits in a
\* queue that is gone, even if an earlier recovery died half-way.
THEOREM RecoveryComplete == Spec => RecoveryReconciles
<1>1. IInv /\ [Next]_vars =>
        [~Up /\ Up' => \A j \in JobIds : /\ jobs[j].st # "running"
                                         /\ jobs[j].st = "queued" => jobs[j].q \in config]_vars
  <2> SUFFICES ASSUME IInv, [Next]_vars, ~Up, Up', NEW j \in JobIds
               PROVE  jobs[j].st # "running" /\ (jobs[j].st = "queued" => jobs[j].q \in config)
    OBVIOUS
  <2>1. StartLoops
    BY UpStep
  <2>2. RunningJobs = {} /\ Orphaned = {}
    BY <2>1 DEF StartLoops, IInv, BootInv
  <2>3. jobs[j].q \in Queues
    BY DEF IInv, TypeOK, Row
  <2> QED BY <2>2, <2>3 DEF RunningJobs, Orphaned, QueuedIn
<1> QED BY <1>1, Invariance, PTL DEF Spec, RecoveryReconciles

-----------------------------------------------------------------------------
(* The events of a job, part by part of EventInv *)

\* The statuses a run ends in.
RunResults == {"succeeded", "failed", "needs_input"}

\* A step that announces nothing: a row may change as long as a run's result is not
\* among what it becomes, unless its queue is known as absent.
LEMMA OutboxStill ==
  ASSUME IInv, EventInv, [Next]_vars, UNCHANGED outbox, absent \subseteq absent',
         overlap => overlap',
         \A j \in JobIds : jobs[j].st \notin Terminal /\ jobs'[j].st \in RunResults
                             => jobs'[j].q \in absent'
  PROVE  SilentUntilEnd' /\ EventMatchesStatus' /\ FinishedHasEvent'
<1>0. RunResults \subseteq Terminal /\ \A st \in Terminal : st # "none"
  BY DEF RunResults, Terminal
<1>1. \A j \in JobIds : jobs[j].st \in Terminal => jobs'[j] = jobs[j]
  BY <1>0, RowsKept DEF RowKept, Exists
<1>2. \A j \in JobIds : jobs[j].st \notin Terminal => outbox[j] = <<>>
  BY DEF EventInv, SilentUntilEnd
<1>3. SilentUntilEnd'
  BY <1>1, <1>2 DEF SilentUntilEnd
<1>4. EventMatchesStatus'
  BY <1>1, <1>2 DEF EventInv, EventMatchesStatus
<1>5. FinishedHasEvent'
  <2> SUFFICES ASSUME NEW j \in JobIds, jobs'[j].st \in RunResults, jobs'[j].q \notin absent'
               PROVE  outbox'[j] = <<jobs'[j].st>>
    BY DEF FinishedHasEvent, RunResults
  <2>1. jobs[j].st \in Terminal
    OBVIOUS
  <2>2. jobs[j].st \in RunResults /\ jobs[j].q \notin absent /\ jobs'[j].st = jobs[j].st
    BY <1>1, <2>1
  <2> QED BY <2>2 DEF EventInv, FinishedHasEvent, RunResults
<1> QED BY <1>3, <1>4, <1>5

\* Requests that owe an announcement keep owing it.
LEMMA CancelStill ==
  ASSUME IInv, EventInv, [Next]_vars, absent \subseteq absent', overlap => overlap',
         \A j \in JobIds : outbox[j] = <<>> => outbox'[j] = <<>> \/ (MayRepeat(j) /\ UNCHANGED jobs),
         \A c \in Clients : req'[c] = req[c] \/ req'[c].pc # "notify"
  PROVE  CancelOwed'
<1>1. \A c \in Clients : req'[c].pc = "notify" =>
        /\ req'[c] = req[c] /\ req[c].id \in JobIds /\ jobs[req[c].id].st = "cancelled"
        /\ outbox[req[c].id] = <<>> \/ MayRepeat(req[c].id)
  BY DEF EventInv, CancelOwed, IInv, FreshIds
<1>2. \A j \in JobIds : jobs[j].st = "cancelled" => jobs'[j] = jobs[j]
  BY RowsKept DEF RowKept, Exists, Terminal
<1>3. \A c \in Clients : req'[c].pc = "notify" =>
        /\ jobs'[req'[c].id].st = "cancelled"
        /\ \/ outbox'[req'[c].id] = <<>>
           \/ overlap' /\ jobs'[req'[c].id].q \in absent'
  BY <1>1, <1>2 DEF MayRepeat
<1>4. \A c, d \in Clients :
       c # d /\ req'[c].pc = "notify" /\ req'[d].pc = "notify" => req'[c].id # req'[d].id
  BY <1>1 DEF EventInv, CancelOwed
<1> QED BY <1>3, <1>4 DEF CancelOwed, MayRepeat

\* Jobs stay in their queues.
LEMMA WithinStays ==
  ASSUME IInv, [Next]_vars, NEW r \in ReloadState, NEW qs, NEW ps, qs \subseteq ps,
         Within(r, qs, jobs)
  PROVE  Within(r, ps, jobs')
<1>1. \A j \in r.ids : j \in JobIds
  BY DEF ReloadState
<1>2. \A j \in JobIds : jobs[j].st # "none" => jobs'[j].st # "none" /\ jobs'[j].q = jobs[j].q
  BY RowsKept DEF RowKept, Same, Exists
<1> QED BY <1>1, <1>2 DEF Within

\* A step of something else leaves the reloads what they have found.
LEMMA ReloadStill ==
  ASSUME IInv, EventInv, [Next]_vars, UNCHANGED <<config, absent, overlap, reload>>
  PROVE  ReloadRemoved' /\ OneReload'
<1>1. ASSUME NEW g \in Loaders
      PROVE  /\ Found(reload[g]) /\ Within(reload[g], absent, jobs')
             /\ ~overlap => Within(reload[g], Queues \ config, jobs')
  <2>1. reload[g] \in ReloadState
    BY DEF IInv, TypeOK
  <2> QED BY <2>1, WithinStays DEF EventInv, ReloadRemoved
<1> QED BY <1>1 DEF EventInv, ReloadRemoved, OneReload

\* A call moves on from what it has found, the config staying what it is.
LEMMA ReloadMoves ==
  ASSUME IInv, EventInv, [Next]_vars, UNCHANGED <<config, absent, overlap>>,
         NEW g \in Loaders, NEW r, reload' = [reload EXCEPT ![g] = r], reload[g].pc # "idle",
         Found(r), Within(r, absent, jobs'), ~overlap => Within(r, Queues \ config, jobs')
  PROVE  ReloadRemoved' /\ OneReload'
<1>1. \A h \in Loaders : reload'[h] = IF h = g THEN r ELSE reload[h]
  BY DEF IInv, TypeOK
<1>2. ASSUME NEW h \in Loaders, h # g
      PROVE  /\ Found(reload[h]) /\ Within(reload[h], absent, jobs')
             /\ ~overlap => Within(reload[h], Queues \ config, jobs')
  <2>1. reload[h] \in ReloadState
    BY DEF IInv, TypeOK
  <2> QED BY <2>1, WithinStays DEF EventInv, ReloadRemoved
<1>3. ReloadRemoved'
  BY <1>1, <1>2 DEF ReloadRemoved
<1>4. OneReload'
  BY <1>1 DEF EventInv, OneReload
<1> QED BY <1>3, <1>4

\* Recovery keeps owing what it has not announced.
LEMMA BootStill ==
  ASSUME IInv, EventInv, [Next]_vars, UNCHANGED config,
         boot'.pc = "notify" => boot.pc = "notify" /\ boot'.ids \subseteq boot.ids,
         \A j \in JobIds : boot'.pc = "notify" /\ j \in boot'.ids => outbox'[j] = outbox[j]
  PROVE  RecoveryOwed'
<1> SUFFICES ASSUME boot'.pc = "notify", NEW j \in boot'.ids
             PROVE  /\ jobs'[j].st # "none"
                    /\ jobs'[j].q \in config => jobs'[j].st = "interrupted" /\ outbox'[j] = <<>>
  BY DEF RecoveryOwed, Exists
<1>1. j \in boot.ids /\ j \in JobIds /\ boot.pc = "notify"
  BY DEF IInv, TypeOK, BootState
<1>2. Exists(j) /\ (jobs[j].q \in config => jobs[j].st = "interrupted" /\ outbox[j] = <<>>)
  BY <1>1 DEF EventInv, RecoveryOwed
<1>3. RowKept(j)
  BY <1>1, <1>2, RowsKept
<1>4. "interrupted" \in Terminal /\ outbox'[j] = outbox[j]
  BY <1>1 DEF Terminal
<1> QED BY <1>2, <1>3, <1>4 DEF RowKept, Same

\* A step that touches no event, no config and neither reload nor recovery.
LEMMA EventFrame ==
  ASSUME IInv, EventInv, [Next]_vars, UNCHANGED <<outbox, config, absent, overlap, reload, boot>>,
         \A c \in Clients : req'[c] = req[c] \/ req'[c].pc # "notify",
         \A j \in JobIds : jobs[j].st \notin Terminal /\ jobs'[j].st \in RunResults
                             => jobs'[j].q \in absent'
  PROVE  EventInv'
<1>1. SilentUntilEnd' /\ EventMatchesStatus' /\ FinishedHasEvent'
  BY OutboxStill
<1>2. CancelOwed'
  BY CancelStill
<1>3. ReloadRemoved' /\ OneReload'
  BY ReloadStill
<1>4. RecoveryOwed'
  BY BootStill
<1>5. AbsentKnown'
  BY DEF EventInv, AbsentKnown
<1> QED BY <1>1, <1>2, <1>3, <1>4, <1>5 DEF EventInv

\* Nothing is enqueued for a queue the config lacks.
LEMMA NotifyNobody ==
  ASSUME TypeOK, NEW j \in JobIds, NotifyJob(j), jobs[j].q \notin config
  PROVE  UNCHANGED outbox
<1>1. outbox[j] \o <<>> = outbox[j]
  BY DEF TypeOK
<1>2. [outbox EXCEPT ![j] = outbox[j]] = outbox
  BY DEF TypeOK
<1> QED BY <1>1, <1>2 DEF NotifyJob, Deliveries

\* notifyJob adds at most the job's status.
LEMMA NotifyAdds ==
  ASSUME TypeOK, NEW j \in JobIds, NotifyJob(j)
  PROVE  /\ outbox'[j] = outbox[j]
            \/ (jobs[j].st \in Terminal /\ outbox'[j] = outbox[j] \o <<jobs[j].st>>)
         /\ \A i \in JobIds : i # j => outbox'[i] = outbox[i]
<1>0. outbox \in [JobIds -> Seq(Terminal)] /\ outbox[j] \o <<>> = outbox[j]
  BY DEF TypeOK
<1>1. CASE jobs[j].st \in Terminal
  <2> DEFINE o == outbox[j] \o Deliveries(jobs[j].q, jobs[j].st)
  <2>1. outbox' = [outbox EXCEPT ![j] = o]
    BY <1>1 DEF NotifyJob
  <2>2. o \in {outbox[j], outbox[j] \o <<jobs[j].st>>}
    BY <1>0 DEF Deliveries
  <2> HIDE DEF o
  <2> QED BY <1>0, <1>1, <2>1, <2>2
<1>2. CASE jobs[j].st \notin Terminal
  BY <1>2 DEF NotifyJob
<1> QED BY <1>1, <1>2

\* What that does to the three parts about the outbox, if nobody has announced the job
\* yet or it may be announced again.
LEMMA Announced ==
  ASSUME IInv, EventInv, UNCHANGED <<jobs, absent, overlap>>, NEW j \in JobIds, NotifyJob(j),
         \/ outbox[j] = <<>> /\ jobs[j].st \in {"cancelled", "interrupted"}
         \/ MayRepeat(j)
  PROVE  SilentUntilEnd' /\ EventMatchesStatus' /\ FinishedHasEvent'
<1>0. TypeOK /\ jobs[j] \in Row
  BY DEF IInv, TypeOK
<1>1. /\ outbox'[j] = outbox[j]
         \/ (jobs[j].st \in Terminal /\ outbox'[j] = outbox[j] \o <<jobs[j].st>>)
      /\ \A i \in JobIds : i # j => outbox'[i] = outbox[i]
  BY <1>0, NotifyAdds
<1>2. SilentUntilEnd'
  BY <1>1 DEF EventInv, SilentUntilEnd
<1>3. outbox'[j] \in {<<>>, <<jobs[j].st>>} \/ (MayRepeat(j) /\ outbox'[j] \in Seq({jobs[j].st}))
  <2>1. CASE outbox[j] = <<>>
    <3>1. <<>> \o <<jobs[j].st>> = <<jobs[j].st>>
      OBVIOUS
    <3> QED BY <1>1, <2>1, <3>1
  <2>2. CASE MayRepeat(j)
    <3>1. outbox[j] \in Seq({jobs[j].st})
      <4>1. <<>> \in Seq({jobs[j].st}) /\ <<jobs[j].st>> \in Seq({jobs[j].st})
        OBVIOUS
      <4> QED BY <4>1 DEF EventInv, EventMatchesStatus
    <3>2. outbox[j] \o <<jobs[j].st>> \in Seq({jobs[j].st})
      BY <3>1
    <3> QED BY <1>1, <2>2, <3>1, <3>2
  <2> QED BY <2>1, <2>2
<1>4. EventMatchesStatus'
  BY <1>1, <1>3 DEF EventInv, EventMatchesStatus, MayRepeat
<1>5. FinishedHasEvent'
  BY <1>1 DEF EventInv, FinishedHasEvent, MayRepeat
<1> QED BY <1>2, <1>4, <1>5

-----------------------------------------------------------------------------
(* The events of a job, step by step *)

\* The executor up to its result.
LEMMA LoopEvents ==
  ASSUME IInv, EventInv, [Next]_vars,
         Loop \/ Wait \/ Process \/ PrepareRun \/ LockAbandoned \/ StartClaude
         \/ ClaudeExits \/ ReadCancelled \/ Unwind \/ Decide \/ Requeue
  PROVE  EventInv'
<1>1. UNCHANGED <<outbox, config, absent, overlap, reload, boot, req>>
  BY DEF Loop, Wait, Process, ReadGate, Pick, Claim, ExecutorExits, PrepareRun,
       AcquireLock, LockAbandoned, StartClaude, ClaudeExits, HelperLetsGo, Reaped, ReadCancelled,
       Unwind, Decide, Requeue, ToolCall, StreamFails, HelperHolds, dbVars, cfgVars, procVars
<1>2. ASSUME NEW j \in JobIds, jobs[j].st \notin Terminal PROVE jobs'[j].st \notin RunResults
  <2>0. RunResults \subseteq Terminal /\ "running" \notin RunResults /\ "queued" \notin RunResults
    BY DEF RunResults, Terminal
  <2>1. CASE Claim
    BY <1>2, <2>0, <2>1, ClaimRow
  <2>2. CASE Requeue
    BY <1>2, <2>0, <2>2, RequeueRow
  <2>3. CASE UNCHANGED jobs
    BY <1>2, <2>0, <2>3
  <2> QED BY <2>1, <2>2, <2>3 DEF Loop, Wait, Process, ReadGate, Pick, ExecutorExits, PrepareRun,
       AcquireLock, LockAbandoned, StartClaude, ClaudeExits, HelperLetsGo, Reaped, ReadCancelled,
       Unwind, Decide, ToolCall, StreamFails, HelperHolds, dbVars
<1> QED BY <1>1, <1>2, EventFrame

\* finish: the result and its event in one transaction.
LEMMA FinishEvents ==
  ASSUME IInv, EventInv, [Next]_vars, Finish
  PROVE  EventInv'
<1>0. /\ exec.id \in JobIds /\ jobs[exec.id].st = "running" /\ exec.res.st \in Terminal
      /\ Up /\ UNCHANGED <<config, absent, overlap, reload, boot, req>>
      /\ jobs \in [JobIds -> Row] /\ outbox \in [JobIds -> Seq(Terminal)]
  BY DEF Finish, ExecStep, IInv, OwnedIsRunning, Owning, TypeOK, ExecState, Verdict, cfgVars, procVars
<1>1. CASE UNCHANGED <<jobs, outbox>>
  <2>1. RunResults \subseteq Terminal
    BY DEF RunResults, Terminal
  <2> QED BY <1>0, <1>1, <2>1, EventFrame
<1>2. CASE /\ jobs' = [jobs EXCEPT ![exec.id].st = exec.res.st, ![exec.id].sess = exec.res.sess]
           /\ outbox' = [outbox EXCEPT ![exec.id] = @ \o Deliveries(jobs[exec.id].q, exec.res.st)]
  <2> DEFINE e == exec.id
             o == outbox[exec.id] \o Deliveries(jobs[exec.id].q, exec.res.st)
  <2>1. outbox[e] = <<>>
    BY <1>0 DEF EventInv, SilentUntilEnd, Terminal
  <2>2. /\ o \in {<<>>, <<exec.res.st>>}
        /\ jobs[e].q \in config => o = <<exec.res.st>>
    <3>1. <<>> \o <<exec.res.st>> = <<exec.res.st>> /\ <<>> \o <<>> = <<>>
      BY <1>0
    <3> QED BY <2>1, <3>1 DEF Deliveries
  <2>3. outbox' = [outbox EXCEPT ![e] = o]
    BY <1>2
  <2> HIDE DEF o
  <2>4. /\ outbox'[e] = o
        /\ \A j \in JobIds : j # e => outbox'[j] = outbox[j] /\ jobs'[j] = jobs[j]
    BY <1>0, <1>2, <2>3
  <2>5. jobs'[e].st = exec.res.st /\ jobs'[e].q = jobs[e].q
    BY <1>0, <1>2 DEF Row
  <2> HIDE DEF e
  <2>6. SilentUntilEnd'
    BY <1>0, <2>4, <2>5 DEF EventInv, SilentUntilEnd
  <2>7. EventMatchesStatus'
    BY <1>0, <2>2, <2>4, <2>5 DEF EventInv, EventMatchesStatus
  <2>8. FinishedHasEvent'
    <3>1. jobs[e].q \in Queues
      BY <1>0 DEF Row, e
    <3>2. jobs[e].q \notin absent => jobs[e].q \in config
      BY <3>1 DEF EventInv, AbsentKnown
    <3> QED BY <1>0, <2>2, <2>4, <2>5, <3>2 DEF EventInv, FinishedHasEvent
  <2>9. CancelOwed'
    <3>1. \A c \in Clients : req[c].pc = "notify" => req[c].id # e /\ req[c].id \in JobIds
      BY <1>0 DEF EventInv, CancelOwed, IInv, FreshIds, e
    <3> QED BY <1>0, <2>4, <3>1 DEF EventInv, CancelOwed, MayRepeat
  <2>10. ReloadRemoved' /\ OneReload'
    BY <1>0, ReloadStill
  <2>11. RecoveryOwed'
    BY <1>0 DEF RecoveryOwed, Up
  <2>12. AbsentKnown'
    BY <1>0 DEF EventInv, AbsentKnown
  <2> QED BY <2>6, <2>7, <2>8, <2>9, <2>10, <2>11, <2>12 DEF EventInv
<1> QED BY <1>1, <1>2, Zenon DEF Finish

\* The requests.
LEMMA RequestEvents ==
  ASSUME IInv, EventInv, [Next]_vars, NEW c \in Clients,
         Insert(c) \/ CancelRunning(c) \/ Request(c)
  PROVE  EventInv'
<1>0. req \in [Clients -> ReqState] /\ NoReq.pc # "notify"
      /\ RunResults \subseteq Terminal /\ "queued" \notin RunResults
  BY DEF IInv, TypeOK, NoReq, RunResults, Terminal
<1>1. UNCHANGED <<outbox, config, absent, overlap, reload, boot>>
  BY DEF Insert, CancelRunning, Request, Submit, RetryJob, ReplyJob, Mint, CancelJob, Disconnect,
       dbVars, cfgVars, procVars
<1>2. \A d \in Clients : req'[d] = req[d] \/ req'[d].pc # "notify"
  <2>1. CASE Insert(c) \/ Disconnect(c)
    BY <1>0, <2>1 DEF Insert, Disconnect
  <2>2. CASE CancelRunning(c)
    <3>1. [req[c] EXCEPT !.pc = "refused"].pc = "refused"
      BY <1>0 DEF ReqState
    <3> QED BY <1>0, <2>2, <3>1 DEF CancelRunning
  <2>3. CASE CancelJob(c)
    BY <1>0, <2>3 DEF CancelJob
  <2>4. CASE Submit(c) \/ RetryJob(c) \/ ReplyJob(c)
    <3>1. PICK row : req' = [req EXCEPT ![c] = [pc |-> "insert", id |-> nextId + 1, row |-> row]]
      BY <2>4, Zenon DEF Submit, RetryJob, ReplyJob, Mint
    <3> QED BY <1>0, <3>1
  <2> QED BY <2>1, <2>2, <2>3, <2>4 DEF Request
<1>3. ASSUME NEW j \in JobIds, jobs[j].st \notin Terminal PROVE jobs'[j].st \notin RunResults
  <2>1. CASE Insert(c)
    BY <1>0, <1>3, <2>1, InsertRow
  <2>2. CASE UNCHANGED jobs
    BY <1>0, <1>3, <2>2
  <2> QED BY <2>1, <2>2 DEF CancelRunning, Request, Submit, RetryJob, ReplyJob, Mint, CancelJob,
       Disconnect, dbVars
<1> QED BY <1>1, <1>2, <1>3, EventFrame

\* store.Cancel, and the announcement that follows it.
LEMMA CancelEvents ==
  ASSUME IInv, EventInv, [Next]_vars, NEW c \in Clients, CancelQueued(c) \/ CancelNotify(c)
  PROVE  EventInv'
<1>0. /\ req \in [Clients -> ReqState] /\ NoReq.pc # "notify" /\ jobs \in [JobIds -> Row]
      /\ req[c].id \in JobIds /\ TypeOK
  BY DEF IInv, TypeOK, NoReq, FreshIds, CancelQueued, CancelNotify
<1>1. Up /\ UNCHANGED <<config, absent, overlap, reload, boot>>
  BY DEF CancelQueued, CancelNotify, cfgVars, procVars
<1>2. ReloadRemoved' /\ OneReload' /\ RecoveryOwed' /\ AbsentKnown'
  <2>2. ReloadRemoved' /\ OneReload'
    BY <1>1, ReloadStill
  <2> QED BY <1>1, <2>2 DEF EventInv, RecoveryOwed, AbsentKnown, Up
<1>3. CASE CancelQueued(c)
  <2>1. SilentUntilEnd' /\ EventMatchesStatus' /\ FinishedHasEvent'
    <3>1. \A j \in JobIds : jobs'[j] = jobs[j] \/ jobs'[j].st = "cancelled"
      <4>1. [jobs[req[c].id] EXCEPT !.st = "cancelled"].st = "cancelled"
        BY <1>0 DEF Row
      <4> QED BY <1>0, <1>3, <4>1 DEF CancelQueued
    <3>2. RunResults \subseteq Terminal /\ "cancelled" \notin RunResults
      BY DEF RunResults, Terminal
    <3> QED BY <1>1, <1>3, <3>1, <3>2, OutboxStill DEF CancelQueued
  <2>2. CancelOwed'
    <3>1. CASE req' = [req EXCEPT ![c] = NoReq]
      BY <1>0, <1>1, <1>3, <3>1, CancelStill DEF CancelQueued
    <3>2. CASE /\ jobs[req[c].id].st = "queued"
               /\ jobs' = [jobs EXCEPT ![req[c].id].st = "cancelled"]
               /\ req' = [req EXCEPT ![c].pc = "notify"]
      <4>1. /\ jobs'[req[c].id].st = "cancelled" /\ outbox[req[c].id] = <<>>
            /\ \A j \in JobIds : j # req[c].id => jobs'[j] = jobs[j]
        BY <1>0, <3>2 DEF EventInv, SilentUntilEnd, Row, Terminal
      <4>2. req'[c].id = req[c].id /\ \A d \in Clients : d # c => req'[d] = req[d]
        BY <1>0, <3>2 DEF ReqState
      <4>3. UNCHANGED outbox
        BY <1>3 DEF CancelQueued
      <4>4. \A d \in Clients : d # c /\ req[d].pc = "notify" =>
              req[d].id # req[c].id /\ req[d].id \in JobIds
        BY <3>2 DEF EventInv, CancelOwed, IInv, FreshIds
      <4> QED BY <1>0, <1>1, <4>1, <4>2, <4>3, <4>4 DEF EventInv, CancelOwed, MayRepeat
    <3> QED BY <1>3, <3>1, <3>2 DEF CancelQueued
  <2> QED BY <1>2, <2>1, <2>2 DEF EventInv
<1>4. CASE CancelNotify(c)
  <2>1. jobs[req[c].id].st = "cancelled" /\ (outbox[req[c].id] = <<>> \/ MayRepeat(req[c].id))
    BY <1>4 DEF CancelNotify, EventInv, CancelOwed
  <2>2. UNCHANGED jobs /\ NotifyJob(req[c].id) /\ req' = [req EXCEPT ![c] = NoReq]
    BY <1>4 DEF CancelNotify
  <2>3. \A i \in JobIds : i # req[c].id => outbox'[i] = outbox[i]
    BY <1>0, <2>2, NotifyAdds
  <2>4. SilentUntilEnd' /\ EventMatchesStatus' /\ FinishedHasEvent'
    BY <1>0, <1>1, <2>1, <2>2, Announced
  <2>5. CancelOwed'
    <3>1. \A d \in Clients : req'[d].pc = "notify" =>
            d # c /\ req'[d] = req[d] /\ req[d].id # req[c].id /\ req[d].id \in JobIds
      BY <1>0, <1>4, <2>2 DEF CancelNotify, EventInv, CancelOwed, IInv, FreshIds
    <3> QED BY <1>1, <2>2, <2>3, <3>1 DEF EventInv, CancelOwed, MayRepeat
  <2> QED BY <1>2, <2>4, <2>5 DEF EventInv
<1> QED BY <1>3, <1>4

\* A call of ReloadIfChanged up to its swap, which announces nothing.
LEMMA LoadEvents ==
  ASSUME IInv, EventInv, [Next]_vars, NEW g \in Loaders,
         ReadFile(g) \/ Compare(g) \/ Record(g) \/ ReloadSwap(g)
  PROVE  EventInv'
<1> DEFINE r == reload[g]
<1>0. /\ Up /\ UNCHANGED <<boot, req, jobs, outbox>> /\ r \in ReloadState
      /\ reload \in [Loaders -> ReloadState]
  BY DEF ReadFile, Compare, Record, ReloadSwap, procVars, dbVars, IInv, TypeOK
<1>1. RecoveryOwed' /\ (overlap => overlap') /\ absent \subseteq absent' /\ AbsentKnown'
  <2>1. RecoveryOwed'
    BY <1>0 DEF RecoveryOwed, Up
  <2>2. CASE Compare(g) \/ Record(g)
    BY <2>1, <2>2 DEF Compare, Record, EventInv, AbsentKnown, cfgVars
  <2>4. CASE ReadFile(g)
    <3>1. overlap => overlap'
      BY <2>4, Zenon DEF ReadFile
    <3> QED BY <2>1, <2>4, <3>1 DEF ReadFile, EventInv, AbsentKnown
  <2>3. CASE ReloadSwap(g)
    BY <2>1, <2>3 DEF ReloadSwap, AbsentKnown
  <2> QED BY <2>2, <2>3, <2>4
<1>2. RunResults \subseteq Terminal
  BY DEF RunResults, Terminal
<1>3. SilentUntilEnd' /\ EventMatchesStatus' /\ FinishedHasEvent'
  BY <1>0, <1>1, <1>2, OutboxStill
<1>4. CancelOwed'
  BY <1>0, <1>1, CancelStill
<1>5. Found(r) /\ Found(NoReload) /\ NoReload.pc = "idle"
  BY DEF EventInv, ReloadRemoved, Found, NoReload
<1>6. CASE ReadFile(g)
  <2> DEFINE n == [NoReload EXCEPT !.pc = "compare", !.buf = file]
  <2>1. /\ reload' = [reload EXCEPT ![g] = n] /\ UNCHANGED <<config, absent>>
        /\ ~overlap' => ~overlap /\ \A h \in Loaders \ {g} : reload[h].pc = "idle"
    BY <1>6 DEF ReadFile
  <2>2. n.pc = "compare" /\ Found(n)
    BY DEF NoReload, Found, Sweeping
  <2> HIDE DEF n
  <2>3. \A h \in Loaders : reload'[h] = IF h = g THEN n ELSE reload[h]
    BY <1>0, <2>1
  <2>4. ReloadRemoved'
    BY <1>0, <2>1, <2>2, <2>3 DEF EventInv, ReloadRemoved, Within, Sweeping
  <2>5. OneReload'
    BY <2>1, <2>3 DEF OneReload
  <2> QED BY <1>1, <1>3, <1>4, <2>4, <2>5 DEF EventInv
<1>7. CASE Compare(g) \/ Record(g)
  <2>1. /\ UNCHANGED <<config, absent, overlap>> /\ r.pc \in {"compare", "record"}
    BY <1>7 DEF Compare, Record, cfgVars
  <2>2. PICK n : reload' = [reload EXCEPT ![g] = n] /\ n.pc \notin Sweeping /\ Found(n)
    <3>1. CASE Compare(g)
      <4>1. [r EXCEPT !.pc = "record"].pc = "record" /\ Found([r EXCEPT !.pc = "record"])
        BY <1>0, <1>5, <2>1 DEF Found, ReloadState, Sweeping
      <4>2. NoReload.pc \notin Sweeping
        BY <1>5 DEF Sweeping
      <4>3. CASE reload' = [reload EXCEPT ![g] = NoReload]
        BY <1>5, <4>2, <4>3
      <4>4. CASE reload' = [reload EXCEPT ![g] = [r EXCEPT !.pc = "record"]]
        BY <4>1, <4>4 DEF Sweeping
      <4> QED BY <3>1, <4>3, <4>4 DEF Compare
    <3>2. CASE Record(g)
      <4> DEFINE n == [r EXCEPT !.pc = "swap", !.todo = config \ r.buf]
      <4>1. n.pc = "swap" /\ n.todo = config \ r.buf /\ n.buf = r.buf /\ n.q = r.q /\ n.ids = r.ids
        BY <1>0 DEF ReloadState
      <4>2. reload' = [reload EXCEPT ![g] = n]
        BY <1>0, <3>2 DEF Record
      <4> HIDE DEF n
      <4>3. Found(n) /\ n.pc \notin Sweeping
        BY <1>5, <2>1, <4>1 DEF Found, Sweeping
      <4> QED BY <4>2, <4>3
    <3> QED BY <1>7, <3>1, <3>2
  <2>3. ReloadRemoved' /\ OneReload'
    BY <2>1, <2>2, ReloadMoves DEF Within
  <2> QED BY <1>1, <1>3, <1>4, <2>3 DEF EventInv
<1>8. CASE ReloadSwap(g)
  <2> DEFINE n == [r EXCEPT !.pc = "select", !.buf = {}]
  <2>1. /\ r.pc = "swap" /\ config' = r.buf /\ absent' = absent \union (Queues \ r.buf)
        /\ UNCHANGED overlap
    BY <1>8 DEF ReloadSwap
  <2>2. reload' = [reload EXCEPT ![g] = n]
    BY <1>0, <1>8 DEF ReloadSwap
  <2>3. /\ n.pc = "select" /\ n.todo = r.todo /\ n.q = {} /\ n.ids = {}
        /\ r.todo \subseteq Queues \ r.buf
    BY <1>0, <1>5, <2>1 DEF ReloadState, Found, Sweeping
  <2> HIDE DEF n
  <2>4. \A h \in Loaders : reload'[h] = IF h = g THEN n ELSE reload[h]
    BY <1>0, <2>2
  <2>5. Found(n) /\ Within(n, absent', jobs) /\ Within(n, Queues \ config', jobs)
    BY <2>1, <2>3 DEF Found, Within, Sweeping
  <2>6. ASSUME NEW h \in Loaders, h # g
        PROVE  /\ Found(reload[h]) /\ Within(reload[h], absent', jobs)
               /\ ~overlap => Within(reload[h], Queues \ config', jobs)
    <3>1. Found(reload[h]) /\ Within(reload[h], absent, jobs)
      BY DEF EventInv, ReloadRemoved
    <3>2. Within(reload[h], absent', jobs)
      BY <2>1, <3>1 DEF Within
    <3>3. ~overlap => reload[h].pc = "idle"
      BY <2>1, <2>6 DEF EventInv, OneReload
    <3> QED BY <3>1, <3>2, <3>3 DEF Within, Sweeping
  <2>7. ReloadRemoved'
    BY <1>0, <2>1, <2>4, <2>5, <2>6 DEF ReloadRemoved
  <2>8. OneReload'
    BY <2>1, <2>3, <2>4 DEF EventInv, OneReload
  <2> QED BY <1>1, <1>3, <1>4, <2>7, <2>8 DEF EventInv
<1> QED BY <1>6, <1>7, <1>8

\* Past the swap: what a reload announces goes to nobody, unless another one has
\* brought the queue back.
LEMMA SweepEvents ==
  ASSUME IInv, EventInv, [Next]_vars, NEW g \in Loaders,
         FailSelect(g) \/ FailUpdate(g) \/ ReloadNotify(g)
  PROVE  EventInv'
<1> DEFINE r == reload[g]
<1>0. /\ Up /\ UNCHANGED <<boot, req, config, absent, overlap>> /\ r \in ReloadState
      /\ r.ids \subseteq JobIds /\ TypeOK /\ jobs \in [JobIds -> Row]
      /\ r.pc \in Sweeping /\ r.pc # "idle"
  BY DEF FailSelect, FailUpdate, ReloadNotify, procVars, cfgVars, IInv, TypeOK, ReloadState, Sweeping
<1>1. RecoveryOwed' /\ AbsentKnown'
  BY <1>0 DEF RecoveryOwed, Up, EventInv, AbsentKnown
<1>2. RunResults \subseteq Terminal
  BY DEF RunResults, Terminal
<1>3. Within(r, absent, jobs) /\ (~overlap => Within(r, Queues \ config, jobs))
  BY DEF EventInv, ReloadRemoved
<1>4. Within(r, absent, jobs') /\ (~overlap => Within(r, Queues \ config, jobs'))
  BY <1>0, <1>3, WithinStays
<1>5. ASSUME NEW n, reload' = [reload EXCEPT ![g] = n], n.pc \in Sweeping, n.todo \subseteq r.todo,
             n.q \subseteq r.q, n.ids \subseteq r.ids
      PROVE  ReloadRemoved' /\ OneReload'
  <2>1. Found(n)
    BY <1>5 DEF Found, Sweeping
  <2>2. Within(n, absent, jobs') /\ (~overlap => Within(n, Queues \ config, jobs'))
    BY <1>0, <1>4, <1>5 DEF Within
  <2> QED BY <1>0, <1>5, <2>1, <2>2, ReloadMoves
<1>6. CASE FailSelect(g)
  <2>1. UNCHANGED <<jobs, outbox>>
    BY <1>6 DEF FailSelect, dbVars
  <2>2. SilentUntilEnd' /\ EventMatchesStatus' /\ FinishedHasEvent'
    BY <1>0, <1>2, <2>1, OutboxStill
  <2>3. CancelOwed'
    BY <1>0, <2>1, CancelStill
  <2>4. ReloadRemoved' /\ OneReload'
    <3>1. CASE reload' = [reload EXCEPT ![g] = NoReload]
      <4>1. Found(NoReload) /\ NoReload.pc \notin Sweeping
        BY DEF Found, NoReload, Sweeping
      <4> QED BY <1>0, <3>1, <4>1, ReloadMoves DEF Within
    <3>2. ASSUME NEW q \in r.todo, reload' = [reload EXCEPT ![g].todo = @ \ {q}]
          PROVE  ReloadRemoved' /\ OneReload'
      <4> DEFINE n == [r EXCEPT !.todo = @ \ {q}]
      <4>1. n.pc = r.pc /\ n.todo = r.todo \ {q} /\ n.q = r.q /\ n.ids = r.ids
        BY <1>0 DEF ReloadState
      <4>2. reload' = [reload EXCEPT ![g] = n]
        BY <1>0, <3>2
      <4> HIDE DEF n
      <4> QED BY <1>0, <1>5, <4>1, <4>2
    <3>3. ASSUME NEW q \in r.todo,
                 reload' = [reload EXCEPT ![g] = [pc |-> "update", buf |-> {}, todo |-> @.todo \ {q},
                                                  q |-> {q}, ids |-> QueuedIn(q)]]
          PROVE  ReloadRemoved' /\ OneReload'
      <4> DEFINE n == [pc |-> "update", buf |-> {}, todo |-> r.todo \ {q}, q |-> {q},
                       ids |-> QueuedIn(q)]
      <4>1. /\ n.pc = "update" /\ n.todo = r.todo \ {q} /\ n.q = {q}
            /\ \A j \in n.ids : jobs[j].st = "queued" /\ jobs[j].q = q
        BY DEF QueuedIn
      <4>2. reload' = [reload EXCEPT ![g] = n]
        BY <1>0, <3>3
      <4> HIDE DEF n
      <4>3. Found(n)
        BY <4>1 DEF Found, Sweeping
      <4>4. Within(n, absent, jobs) /\ (~overlap => Within(n, Queues \ config, jobs))
        BY <1>0, <1>3, <3>3, <4>1 DEF Within
      <4> QED BY <1>0, <2>1, <4>2, <4>3, <4>4, ReloadMoves
    <3> QED BY <1>6, <3>1, <3>2, <3>3, Zenon DEF FailSelect
  <2> QED BY <1>1, <2>2, <2>3, <2>4 DEF EventInv
<1>7. CASE FailUpdate(g)
  <2>1. UNCHANGED outbox
    BY <1>7 DEF FailUpdate
  <2>2. SilentUntilEnd' /\ EventMatchesStatus' /\ FinishedHasEvent'
    <3>1. \A j \in JobIds : jobs'[j] = jobs[j] \/ jobs[j].q \in r.q
      BY <1>7 DEF FailUpdate
    <3>2. ASSUME NEW j \in JobIds, jobs[j].q \in r.q PROVE jobs'[j].q \in absent'
      <4>1. jobs[j].q \in absent
        BY <1>0, <1>3, <3>2 DEF Within
      <4>2. jobs'[j] = jobs[j] \/ Same(jobs[j], jobs'[j])
        BY <1>7, SweepRow
      <4> QED BY <1>0, <4>1, <4>2 DEF Same
    <3> QED BY <1>0, <1>2, <2>1, <3>1, <3>2, OutboxStill
  <2>3. CancelOwed'
    BY <1>0, <2>1, CancelStill
  <2>4. ReloadRemoved' /\ OneReload'
    <3>1. CASE reload' = [reload EXCEPT ![g].pc = "notify", ![g].q = {}]
      <4> DEFINE n == [r EXCEPT !.pc = "notify", !.q = {}]
      <4>1. n.pc = "notify" /\ n.todo = r.todo /\ n.q = {} /\ n.ids = r.ids
        BY <1>0 DEF ReloadState
      <4>2. reload' = [reload EXCEPT ![g] = n]
        BY <1>0, <3>1 DEF TypeOK
      <4> HIDE DEF n
      <4> QED BY <1>5, <4>1, <4>2 DEF Sweeping
    <3>2. CASE reload' = [reload EXCEPT ![g].pc = "select", ![g].q = {}, ![g].ids = {}]
      <4> DEFINE n == [r EXCEPT !.pc = "select", !.q = {}, !.ids = {}]
      <4>1. n.pc = "select" /\ n.todo = r.todo /\ n.q = {} /\ n.ids = {}
        BY <1>0 DEF ReloadState
      <4>2. reload' = [reload EXCEPT ![g] = n]
        BY <1>0, <3>2 DEF TypeOK
      <4> HIDE DEF n
      <4> QED BY <1>5, <4>1, <4>2 DEF Sweeping
    <3> QED BY <1>7, <3>1, <3>2, Zenon DEF FailUpdate
  <2> QED BY <1>1, <2>2, <2>3, <2>4 DEF EventInv
<1>8. CASE ReloadNotify(g)
  <2>1. UNCHANGED jobs
    BY <1>8 DEF ReloadNotify
  <2>2. \/ UNCHANGED outbox
        \/ \E j \in JobIds : NotifyJob(j) /\ MayRepeat(j)
    <3>1. ASSUME NEW j \in r.ids, NotifyJob(j) PROVE UNCHANGED outbox \/ MayRepeat(j)
      BY <1>0, <1>3, <3>1, NotifyNobody DEF Within, MayRepeat
    <3> QED BY <1>0, <1>8, <3>1 DEF ReloadNotify
  <2>3. SilentUntilEnd' /\ EventMatchesStatus' /\ FinishedHasEvent'
    <3>1. CASE UNCHANGED outbox
      BY <1>0, <1>2, <2>1, <3>1, OutboxStill
    <3>2. CASE \E j \in JobIds : NotifyJob(j) /\ MayRepeat(j)
      BY <1>0, <2>1, <3>2, Announced
    <3> QED BY <2>2, <3>1, <3>2
  <2>4. CancelOwed'
    <3>1. \A j \in JobIds : outbox'[j] = outbox[j] \/ MayRepeat(j)
      BY <1>0, <2>2, NotifyAdds
    <3> QED BY <1>0, <2>1, <3>1, CancelStill
  <2>5. ReloadRemoved' /\ OneReload'
    <3>1. CASE reload' = [reload EXCEPT ![g].pc = "select"]
      <4> DEFINE n == [r EXCEPT !.pc = "select"]
      <4>1. n.pc = "select" /\ n.todo = r.todo /\ n.q = r.q /\ n.ids = r.ids
        BY <1>0 DEF ReloadState
      <4>2. reload' = [reload EXCEPT ![g] = n]
        BY <1>0, <3>1 DEF TypeOK
      <4> HIDE DEF n
      <4> QED BY <1>5, <4>1, <4>2 DEF Sweeping
    <3>2. ASSUME NEW j \in r.ids, reload' = [reload EXCEPT ![g].ids = @ \ {j}]
          PROVE  ReloadRemoved' /\ OneReload'
      <4> DEFINE n == [r EXCEPT !.ids = @ \ {j}]
      <4>1. n.pc = r.pc /\ n.todo = r.todo /\ n.q = r.q /\ n.ids = r.ids \ {j}
        BY <1>0 DEF ReloadState
      <4>2. reload' = [reload EXCEPT ![g] = n]
        BY <1>0, <3>2 DEF TypeOK
      <4> HIDE DEF n
      <4> QED BY <1>0, <1>5, <4>1, <4>2
    <3> QED BY <1>8, <3>1, <3>2, Zenon DEF ReloadNotify
  <2> QED BY <1>1, <2>3, <2>4, <2>5 DEF EventInv
<1> QED BY <1>6, <1>7, <1>8

\* Start-up: no request and no reload is under way, and recovery announces what it
\* interrupted itself.
LEMMA BootEvents ==
  ASSUME IInv, EventInv, [Next]_vars, Boot
  PROVE  EventInv'
<1>0. /\ TypeOK /\ jobs \in [JobIds -> Row] /\ boot \in BootState /\ boot.ids \subseteq JobIds
      /\ ~Up /\ UNCHANGED <<reload, req>>
  BY DEF Boot, LoadQueues, RecoverRunning, RecoverNotify, RecoverRemoved, StartLoops, IInv, TypeOK,
       BootState, Up
<1>1. /\ reload = [g \in Loaders |-> NoReload] /\ \A c \in Clients : req[c].pc # "notify"
  BY <1>0 DEF IInv, BootInv, NoReq
<1>2. ReloadRemoved' /\ OneReload' /\ CancelOwed'
  BY <1>0, <1>1 DEF ReloadRemoved, OneReload, Found, Within, Sweeping, NoReload, CancelOwed
<1>9. UNCHANGED overlap
  BY DEF Boot, LoadQueues, RecoverRunning, RecoverNotify, RecoverRemoved, StartLoops, cfgVars
<1>3. RunResults \subseteq Terminal /\ "interrupted" \notin RunResults
  BY DEF RunResults, Terminal
<1>4. CASE LoadQueues
  <2>1. /\ UNCHANGED <<jobs, outbox>> /\ config' = file /\ absent' = absent \union (Queues \ file)
        /\ boot' = [pc |-> "recover", ids |-> {}]
    BY <1>4 DEF LoadQueues, dbVars
  <2>2. SilentUntilEnd' /\ EventMatchesStatus' /\ FinishedHasEvent'
    BY <1>3, <2>1, <1>9, OutboxStill
  <2> QED BY <1>2, <2>1, <2>2 DEF EventInv, RecoveryOwed, AbsentKnown
<1>5. CASE RecoverRunning
  <2>1. /\ UNCHANGED <<outbox, config, absent>>
        /\ boot' = [pc |-> "notify", ids |-> RunningJobs]
    BY <1>5 DEF RecoverRunning, cfgVars
  <2>2. \A j \in JobIds : \/ jobs'[j] = jobs[j] /\ jobs[j].st # "running"
                          \/ jobs[j].st = "running" /\ jobs'[j].st = "interrupted"
    BY <1>0, <1>5 DEF RecoverRunning, Row
  <2>3. SilentUntilEnd' /\ EventMatchesStatus' /\ FinishedHasEvent'
    BY <1>3, <2>1, <2>2, <1>9, OutboxStill
  <2>4. RecoveryOwed'
    <3>1. \A j \in RunningJobs : j \in JobIds /\ jobs[j].st = "running" /\ outbox[j] = <<>>
      BY DEF RunningJobs, EventInv, SilentUntilEnd, Terminal
    <3> QED BY <2>1, <2>2, <3>1 DEF RecoveryOwed, Exists
  <2> QED BY <1>2, <2>1, <2>3, <2>4 DEF EventInv, AbsentKnown
<1>6. CASE RecoverNotify
  <2>1. PICK j \in boot.ids : /\ NotifyJob(j) \/ UNCHANGED outbox
                              /\ boot' = [boot EXCEPT !.ids = @ \ {j}]
    BY <1>6 DEF RecoverNotify
  <2>2. UNCHANGED <<jobs, config, absent>> /\ boot.pc = "notify"
    BY <1>6 DEF RecoverNotify, cfgVars
  <2>3. boot'.ids = boot.ids \ {j} /\ boot'.pc = "notify"
    BY <1>0, <2>1, <2>2 DEF BootState
  <2>4. AbsentKnown'
    BY <2>2 DEF EventInv, AbsentKnown
  <2>5. CASE UNCHANGED outbox
    <3>1. SilentUntilEnd' /\ EventMatchesStatus' /\ FinishedHasEvent'
      BY <1>3, <2>2, <2>5, <1>9, OutboxStill
    <3>2. RecoveryOwed'
      BY <2>2, <2>3, <2>5, BootStill
    <3> QED BY <1>2, <2>4, <3>1, <3>2 DEF EventInv
  <2>6. CASE NotifyJob(j) /\ jobs[j].q \in config
    <3>1. j \in JobIds /\ jobs[j].st = "interrupted" /\ outbox[j] = <<>>
      BY <1>0, <2>2, <2>6 DEF EventInv, RecoveryOwed
    <3>2. \A i \in JobIds : i # j => outbox'[i] = outbox[i]
      BY <1>0, <2>6, <3>1, NotifyAdds
    <3>3. SilentUntilEnd' /\ EventMatchesStatus' /\ FinishedHasEvent'
      BY <1>9, <2>2, <2>6, <3>1, Announced
    <3>4. RecoveryOwed'
      BY <2>2, <2>3, <3>2, BootStill
    <3> QED BY <1>2, <2>4, <3>3, <3>4 DEF EventInv
  <2>7. CASE NotifyJob(j) /\ jobs[j].q \notin config
    BY <1>0, <2>5, <2>7, NotifyNobody
  <2> QED BY <2>1, <2>5, <2>6, <2>7
<1>7. CASE RecoverRemoved
  <2>1. PICK q \in Orphaned :
          /\ jobs' = [j \in JobIds |-> IF j \in QueuedIn(q)
                                       THEN [jobs[j] EXCEPT !.st = "failed"] ELSE jobs[j]]
          /\ boot' = [boot EXCEPT !.ids = QueuedIn(q)]
    BY <1>7 DEF RecoverRemoved
  <2>2. UNCHANGED <<outbox, config, absent>>
    BY <1>7 DEF RecoverRemoved, cfgVars
  <2>3. q \notin config /\ q \in absent
    BY DEF Orphaned, EventInv, AbsentKnown
  <2>4. \A j \in JobIds : jobs'[j] = jobs[j] \/ j \in QueuedIn(q)
    BY <2>1
  <2>5. \A j \in QueuedIn(q) : j \in JobIds /\ jobs[j].q = q /\ jobs'[j].q = q /\ jobs'[j].st # "none"
    BY <1>0, <2>1 DEF QueuedIn, Row
  <2>6. SilentUntilEnd' /\ EventMatchesStatus' /\ FinishedHasEvent'
    BY <1>3, <2>2, <2>3, <2>4, <2>5, <1>9, OutboxStill
  <2>7. boot'.ids = QueuedIn(q)
    BY <1>0, <2>1 DEF BootState
  <2>8. RecoveryOwed'
    BY <2>2, <2>3, <2>5, <2>7 DEF RecoveryOwed, Exists
  <2> QED BY <1>2, <2>2, <2>6, <2>8 DEF EventInv, AbsentKnown
<1>8. CASE StartLoops
  <2>1. UNCHANGED <<jobs, outbox, config, absent>> /\ boot' = [boot EXCEPT !.pc = "up"]
    BY <1>8 DEF StartLoops, dbVars
  <2>2. boot'.pc # "notify"
    BY <1>0, <2>1 DEF BootState
  <2>3. SilentUntilEnd' /\ EventMatchesStatus' /\ FinishedHasEvent'
    BY <1>3, <2>1, <1>9, OutboxStill
  <2> QED BY <1>2, <2>1, <2>2, <2>3 DEF EventInv, RecoveryOwed, AbsentKnown
<1> QED BY <1>4, <1>5, <1>6, <1>7, <1>8 DEF Boot

\* What happens around the program; a death loses what was still to be announced.
LEMMA EnvironmentEvents ==
  ASSUME IInv, EventInv, [Next]_vars, Environment \/ UNCHANGED vars
  PROVE  EventInv'
<1>0. RunResults \subseteq Terminal
  BY DEF RunResults, Terminal
<1>1. CASE Die
  <2>1. UNCHANGED <<jobs, outbox, config, absent, overlap>>
    BY <1>1 DEF Die, dbVars, cfgVars
  <2>2. SilentUntilEnd' /\ EventMatchesStatus' /\ FinishedHasEvent'
    BY <1>0, <2>1, OutboxStill
  <2>3. CancelOwed' /\ ReloadRemoved' /\ OneReload' /\ RecoveryOwed'
    BY <1>1 DEF Die, CancelOwed, NoReq, ReloadRemoved, OneReload, Found, Within, Sweeping, NoReload,
         RecoveryOwed, Down
  <2> QED BY <2>1, <2>2, <2>3 DEF EventInv, AbsentKnown
<1>2. CASE SetPaused \/ EditFile \/ Stop \/ UNCHANGED vars
  <2>1. UNCHANGED <<jobs, outbox, config, absent, overlap, reload, boot, req>>
    BY <1>2 DEF SetPaused, EditFile, Stop, vars, dbVars, cfgVars, procVars
  <2> QED BY <1>0, <2>1, EventFrame
<1> QED BY <1>1, <1>2 DEF Environment

\* EventInv holds throughout.
LEMMA EventInvariance == Spec => []EventInv
<1>1. Init => EventInv
  <2> SUFFICES ASSUME Init PROVE EventInv
    OBVIOUS
  <2>1. Blank.st = "none" /\ NoReq.pc = "idle" /\ Down.pc = "down"
        /\ NoReload.pc = "idle" /\ NoReload.todo = {} /\ NoReload.q = {} /\ NoReload.ids = {}
    BY DEF Blank, RowWith, NoReq, Down, NoReload
  <2>2. SilentUntilEnd /\ EventMatchesStatus /\ FinishedHasEvent
    BY <2>1 DEF Init, SilentUntilEnd, EventMatchesStatus, FinishedHasEvent
  <2>3. CancelOwed /\ ReloadRemoved /\ OneReload /\ RecoveryOwed /\ AbsentKnown
    BY <2>1 DEF Init, CancelOwed, ReloadRemoved, OneReload, Found, Within, Sweeping, RecoveryOwed,
         AbsentKnown
  <2> QED BY <2>2, <2>3 DEF EventInv
<1>2. IInv /\ EventInv /\ [Next]_vars => EventInv'
  BY LoopEvents, FinishEvents, RequestEvents, CancelEvents, LoadEvents, SweepEvents, BootEvents,
     EnvironmentEvents DEF Next, Run, Reload, Handler
<1> QED BY <1>1, <1>2, Invariance, PTL DEF Spec

\* A job is announced with the status it ends in, whichever of finish, cancelJob,
\* reload and recovery announces it and wherever the process dies, and at most once
\* unless its queue was removed and a poll and a SIGHUP reload have overlapped.
THEOREM AnnouncedOnce == Spec => []EventMatchesStatus
<1>1. EventInv => EventMatchesStatus
  BY DEF EventInv
<1> QED BY <1>1, EventInvariance, PTL

\* The transactional outbox: what a run ended in is never without its event, unless
\* its queue was at some time missing from the config.
THEOREM ResultHasEvent == Spec => []FinishedHasEvent
<1>1. EventInv => FinishedHasEvent
  BY DEF EventInv
<1> QED BY <1>1, EventInvariance, PTL

=============================================================================
