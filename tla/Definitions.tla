---------------------------- MODULE Definitions ----------------------------
(***************************************************************************)
(* What a changing queues.yaml does to jobs and their transcripts.  A job  *)
(* is validated under one definition of its queue (api/jobs.go), rendered  *)
(* under the one in force when it starts (executor/run.go), and its        *)
(* transcript is deleted under a third (executor/prune.go).  Spool has the *)
(* life of a job in full; here its steps are those that use a definition.  *)
(***************************************************************************)
EXTENDS Reload

CONSTANTS
  Jobs,      \* bound: the jobs that are submitted
  ArgNames,  \* names arguments have
  Nothing,   \* no queue, no definition
  MaxAge     \* bound: days since a job finished that are told apart

ASSUME DefinitionsAssumptions ==
  /\ MaxAge \in Nat
  /\ \A f \in Files : \A n \in DOMAIN Text[f] : DOMAIN Text[f][n].args \subseteq ArgNames

VARIABLES
  job,      \* each row: status, queue, hash recorded, arguments given, definition
            \* of its latest run, placeholders left empty in it, days since finished
  files,    \* jobs that have a transcript on disk
  pruner    \* the pass: on or off, its QueueSet, queues left

vars == <<reloadVars, job, files, pruner>>

NoJob == [st |-> "new", q |-> Nothing, hash |-> Nothing, args |-> << >>, def |-> Nothing,
          blank |-> {}, age |-> 0]
Idle == [on |-> FALSE, qs |-> Missing, left |-> {}]

Up == boot = "up"
Finish(S) == [j \in Jobs |-> IF j \in S THEN [job[j] EXCEPT !.st = "done"] ELSE job[j]]
Row(j, row) == job' = [job EXCEPT ![j] = row]

-----------------------------------------------------------------------------
(* Jobs *)

Args == UNION {[X -> ArgValues] : X \in SUBSET ArgNames}

submitJob(j) ==
  /\ Up /\ job[j].st = "new"
  /\ \E n \in DOMAIN queues, args \in Args :
       /\ ValidateArgs(queues[n], args)
       /\ Row(j, [NoJob EXCEPT !.st = "queued", !.q = n, !.hash = hash(n, queues[n]),
                               !.args = args])
  /\ UNCHANGED <<reloadVars, files, pruner>>

\* step: one job at a time, from a queue that is defined.
Claim(j) ==
  /\ Up /\ job[j].st = "queued" /\ job[j].q \in DOMAIN queues
  /\ \A k \in Jobs : job[k].st \notin {"claimed", "running"}
  /\ Row(j, [job[j] EXCEPT !.st = "claimed"])
  /\ UNCHANGED <<reloadVars, files, pruner>>

\* runJob asks for the definition again; execute renders it and creates the transcript.
runJob(j) ==
  /\ Up /\ job[j].st = "claimed"
  /\ IF job[j].q \in DOMAIN queues
     THEN LET d == queues[job[j].q]
          IN /\ Row(j, [job[j] EXCEPT !.st = "running", !.def = hash(job[j].q, d),
                                      !.blank = Blank(d, job[j].args)])
             /\ files' = files \union {j}
     ELSE Row(j, [job[j] EXCEPT !.st = "done"]) /\ UNCHANGED files
  /\ UNCHANGED <<reloadVars, pruner>>

\* The run ends, or the job is queued again.
endJob(j) ==
  /\ Up /\ job[j].st = "running"
  /\ \E st \in {"done", "queued"} : Row(j, [job[j] EXCEPT !.st = st])
  /\ UNCHANGED <<reloadVars, files, pruner>>

\* ReloadIfChanged, last part: FailQueued for each queue that disappeared, unless the
\* store fails.
FailQueued(g) ==
  /\ Sweep(g)
  /\ \E gone \in SUBSET Removed(g) :
       job' = Finish({j \in Jobs : job[j].st = "queued" /\ job[j].q \in gone})
  /\ UNCHANGED <<files, pruner>>

-----------------------------------------------------------------------------
(* The pruner *)

\* A pass that finds no transcript changes nothing and is left out.
PruneBegin ==
  /\ Up /\ ~pruner.on
  /\ files # {}
  /\ pruner' = [on |-> TRUE, qs |-> config, left |-> DOMAIN queues]
  /\ UNCHANGED <<reloadVars, job, files>>

PrunableTranscripts(n, r) == {j \in Jobs : job[j].q = n /\ job[j].st = "done" /\ job[j].age > r}

\* Mutant: a queue that keeps its transcripts ends the pass.
ExpiredStop(n) ==
  LET r == Queues[pruner.qs][n].retention
  IN IF \E m \in DOMAIN Queues[pruner.qs] : Queues[pruner.qs][m].retention <= 0 THEN {}
     ELSE PrunableTranscripts(n, r) \intersect files

\* The transcripts of a queue that have outlived its retention in this pass.
Expired(n) ==
  LET r == Queues[pruner.qs][n].retention
  IN IF r <= 0 THEN {} ELSE PrunableTranscripts(n, r) \intersect files

\* One queue of the pass; the code takes them by name, here any may be next.
PruneQueue(n) ==
  /\ n \in pruner.left
  /\ files' = files \ Expired(n)
  /\ pruner' = [pruner EXCEPT !.left = @ \ {n}]
  /\ UNCHANGED <<reloadVars, job>>

\* The list cannot be read, which ends the pass, or a file cannot be removed.
PruneFails(n) ==
  /\ n \in pruner.left
  /\ \/ /\ Queues[pruner.qs][n].retention > 0
        /\ pruner' = Idle /\ UNCHANGED files
     \/ /\ \E j \in Expired(n) : files' = files \ (Expired(n) \ {j})
        /\ pruner' = [pruner EXCEPT !.left = @ \ {n}]
  /\ UNCHANGED <<reloadVars, job>>

PruneEnd ==
  /\ pruner.on /\ pruner.left = {}
  /\ pruner' = Idle
  /\ UNCHANGED <<reloadVars, job, files>>

-----------------------------------------------------------------------------
(* Start-up, death, time *)

\* LoadQueues, then Recover, then NewReloader.
Start ==
  \/ LoadQueues /\ UNCHANGED <<job, files, pruner>>
  \/ /\ NewReloader
     /\ job' = Finish({j \in Jobs : \/ job[j].st \in {"claimed", "running"}
                                    \/ job[j].st = "queued" /\ job[j].q \notin DOMAIN queues})
     /\ UNCHANGED <<files, pruner>>

Stop == Die /\ pruner' = Idle /\ UNCHANGED <<job, files>>

\* A day passes, for the jobs whose age still matters.  A pass reads the clock once,
\* when it begins, so no day passes inside it.
Ages(j) == job[j].st = "done" /\ j \in files /\ job[j].age < MaxAge
Day ==
  /\ ~pruner.on
  /\ \E j \in Jobs : Ages(j)
  /\ job' = [j \in Jobs |-> IF Ages(j) THEN [job[j] EXCEPT !.age = @ + 1] ELSE job[j]]
  /\ UNCHANGED <<reloadVars, files, pruner>>

Alone(A) == A /\ UNCHANGED <<job, files, pruner>>
ReloadIfChanged(g) == Alone(Load(g)) \/ FailQueued(g)
Executor(j) == Claim(j) \/ runJob(j) \/ endJob(j)

Init ==
  /\ ReloadInit
  /\ job = [j \in Jobs |-> NoJob]
  /\ files = {}
  /\ pruner = Idle

Next ==
  \/ Start \/ Stop \/ Alone(Edit) \/ Day
  \/ \E g \in Loaders : ReloadIfChanged(g)
  \/ \E j \in Jobs : submitJob(j) \/ Executor(j)
  \/ PruneBegin \/ PruneEnd
  \/ \E n \in pruner.left : PruneQueue(n) \/ PruneFails(n)

Spec == Init /\ [][Next]_vars

QueueNames == UNION {DOMAIN Queues[f] : f \in Files}

\* The process is started again, days pass, the tickers of the poll and of the
\* pruner tick, and a queue's transcripts can be removed now and then.  Nobody has
\* to send SIGHUP; a call it started goes on.
Fairness ==
  /\ WF_vars(Start) /\ SF_vars(Day)
  /\ \A g \in Loaders : WF_vars((g = "poll" \/ loader[g].pc # "wait") /\ ReloadIfChanged(g))
  /\ WF_vars(PruneBegin \/ PruneEnd)
  /\ \A n \in QueueNames : SF_vars(PruneQueue(n))

FairSpec == Spec /\ Fairness

-----------------------------------------------------------------------------
(* Properties *)

\* Rows, transcripts and the pass keep their types, and the running config is one
\* that parsed.
TypeOK ==
  /\ ReloadTypeOK
  /\ \A j \in Jobs : /\ job[j].st \in {"new", "queued", "claimed", "running", "done"}
                     /\ job[j].age \in 0 .. MaxAge
                     /\ job[j].blank \subseteq ArgNames
  /\ files \subseteq Jobs
  /\ pruner.on \in BOOLEAN /\ pruner.qs \in Contents /\ pruner.left \subseteq QueueNames

\* An argument that was required when the job was submitted is empty in a prompt only
\* if the client gave it as "": no edit of the definition, requeue or restart between
\* ValidateArgs and Render takes away what was checked.
RenderedAsValidated ==
  \A j \in Jobs : job[j].st # "new" =>
    LET declared == job[j].hash[2].args
    IN \A x \in job[j].blank \intersect DOMAIN declared :
         declared[x].required => x \in DOMAIN job[j].args /\ job[j].args[x] = "empty"

\* A transcript does not outlive a retention that stays in force: a failed pass, a
\* restart or a reload in the middle of a pass only delays its end.
TranscriptGoes ==
  \A j \in Jobs :
    <>[](/\ job[j].st = "done" /\ Up /\ job[j].q \in DOMAIN queues
         /\ queues[job[j].q].retention \in 1 .. MaxAge - 1)
      => <>[](j \notin files)

-----------------------------------------------------------------------------
(* What comments in the code claim and the code does not do *)

\* "ConfigHash identifies the exact definition a job ran under."
HashIsTrue == \A j \in Jobs : job[j].def # Nothing => job[j].def = job[j].hash

\* "A template referring to an undeclared arg would silently render empty; catch it
\* at load instead": no required argument is ever left empty.  A definition that comes
\* to require one after the job was submitted refutes it, and so does a value of "".
NeverBlank ==
  \A j \in Jobs : job[j].def # Nothing
                    => \A x \in job[j].blank : ~job[j].def[2].args[x].required

=============================================================================
