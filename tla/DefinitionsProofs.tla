-------------------------- MODULE DefinitionsProofs --------------------------
(***************************************************************************)
(* Proofs about Definitions, for any texts of queues.yaml, jobs and        *)
(* goroutines that reload, with any number of edits, deaths and days.      *)
(***************************************************************************)
EXTENDS Definitions, TLAPS

\* A call of ReloadIfChanged holds contents that parsed once it records them, and
\* there is no call before the process is up.
LoaderInv ==
  /\ \A g \in Loaders : loader[g].pc \in {"record", "swap", "sweep"} => loader[g].b \in Valid
  /\ boot # "up" => \A g \in Loaders : loader[g] = Waiting

\* What submitJob checked stays true of the definition it recorded: an argument that
\* it requires was given.
Validated(r) ==
  r.st # "new" => \A x \in DOMAIN r.hash[2].args : r.hash[2].args[x].required => x \in DOMAIN r.args

\* What Render leaves empty was not given, or given as "".
Rendered(r) == \A x \in r.blank : x \in DOMAIN r.args => r.args[x] = "empty"

Statuses == {"new", "queued", "claimed", "running", "done"}
RowOf(r) == [st |-> r.st, q |-> r.q, hash |-> r.hash, args |-> r.args, def |-> r.def,
             blank |-> r.blank, age |-> r.age]

\* A row of the jobs table.
GoodRow(r) ==
  /\ r = RowOf(r)
  /\ r.st \in Statuses /\ r.age \in 0 .. MaxAge /\ r.blank \subseteq ArgNames
  /\ Validated(r) /\ Rendered(r)

RowsInv == job = [j \in Jobs |-> job[j]] /\ \A j \in Jobs : GoodRow(job[j])

PassInv == pruner \in [on : BOOLEAN, qs : Contents, left : SUBSET QueueNames]

DefInv == ReloadTypeOK /\ LoaderInv /\ RowsInv /\ files \subseteq Jobs /\ PassInv

-----------------------------------------------------------------------------
(* QueueFile *)

\* Defaults leave the arguments alone.
LEMMA DefaultsKeep ==
  ASSUME NEW d, DOMAIN d = Fields
  PROVE  applyDefaults(d).args = d.args
BY DEF applyDefaults, Fields

\* A queue that is defined was parsed from the text, given its defaults, and accepted.
LEMMA Parsed ==
  ASSUME NEW f \in Valid, NEW n \in DOMAIN Queues[f]
  PROVE  /\ f \in Files /\ n \in DOMAIN Text[f]
         /\ Queues[f][n] = applyDefaults(Text[f][n]) /\ validate(Queues[f][n])
<1>1. f \in Files /\ Queues[f] = ParseQueues(Text[f])
  BY DEF Valid, Queues
<1> DEFINE qs == [m \in DOMAIN Text[f] |-> applyDefaults(Text[f][m])]
<1>2. ParseQueues(Text[f]) = IF \A m \in DOMAIN qs : validate(qs[m]) THEN qs ELSE << >>
  BY DEF ParseQueues
<1>3. DOMAIN << >> = {}
  OBVIOUS
<1>4. Queues[f] = qs /\ \A m \in DOMAIN qs : validate(qs[m])
  BY <1>1, <1>2, <1>3
<1>5. n \in DOMAIN Text[f] /\ qs[n] = applyDefaults(Text[f][n])
  BY <1>4
<1> QED BY <1>1, <1>4, <1>5

\* What the model uses of a queue that is defined.
LEMMA Defined ==
  ASSUME NEW f \in Valid, NEW n \in DOMAIN Queues[f]
  PROVE  /\ DOMAIN Queues[f][n].args \subseteq ArgNames
         /\ templateRefs(Queues[f][n].refs) \ {"input"} \subseteq DOMAIN Queues[f][n].args
<1>1. /\ f \in Files /\ n \in DOMAIN Text[f]
      /\ Queues[f][n] = applyDefaults(Text[f][n]) /\ validate(Queues[f][n])
  BY Parsed
<1>2. DOMAIN Text[f][n] = Fields
  BY <1>1, QueueFileAssumptions
<1>3. applyDefaults(Text[f][n]).args = Text[f][n].args
  BY <1>2, DefaultsKeep
<1>4. DOMAIN Text[f][n].args \subseteq ArgNames
  BY <1>1, DefinitionsAssumptions
<1>5. templateRefs(Queues[f][n].refs) \ {"input"} \subseteq DOMAIN Queues[f][n].args
  BY <1>1 DEF validate
<1> QED BY <1>1, <1>3, <1>4, <1>5

-----------------------------------------------------------------------------
(* Reload *)

Loader == [pc : {"wait", "compare", "refuse", "record", "swap", "sweep"},
           b : Contents, prev : Contents]

\* A call that moves on keeps the contents it has read.
LEMMA LoaderPc ==
  ASSUME NEW r \in Loader, NEW pc \in {"wait", "compare", "refuse", "record", "swap", "sweep"}
  PROVE  /\ [r EXCEPT !.pc = pc] \in Loader /\ [r EXCEPT !.pc = pc].pc = pc
         /\ [r EXCEPT !.pc = pc].b = r.b
BY DEF Loader

\* It leaves the others where they are; it may record, swap and
\* sweep what parsed only, and there is no call unless the process is up.
LEMMA CallMoves ==
  ASSUME ReloadTypeOK, LoaderInv, NEW g \in Loaders, NEW r \in Loader, boot = "up", UNCHANGED boot,
         loader' = [loader EXCEPT ![g] = r],
         r.pc \in {"record", "swap", "sweep"} => r.b \in Valid
  PROVE  LoaderInv' /\ loader' \in [Loaders -> Loader]
<1>1. loader \in [Loaders -> Loader]
  BY DEF ReloadTypeOK, Loader
<1> QED BY <1>1 DEF LoaderInv

\* Every step of a call keeps the config one that parsed.
LEMMA LoadStep ==
  ASSUME ReloadTypeOK, LoaderInv, NEW g \in Loaders, Load(g) \/ Sweep(g)
  PROVE  ReloadTypeOK' /\ LoaderInv'
<1>0. /\ loader \in [Loaders -> Loader] /\ loader[g] \in Loader /\ loader[g].b \in Contents
      /\ file \in Contents /\ lastHash \in Contents /\ boot \in {"down", "loaded", "up"}
      /\ edits \in 0 .. MaxEdits /\ crashes \in 0 .. MaxCrashes /\ raced \in BOOLEAN
      /\ config \in IF boot = "down" THEN {Missing} ELSE Valid
  BY DEF ReloadTypeOK, Loader
<1>1. Waiting \in Loader /\ Waiting.pc = "wait"
  BY DEF Waiting, Loader, Contents
<1>2. boot = "up" /\ UNCHANGED <<boot, file, edits, crashes>>
  BY <1>1 DEF Load, ReadFile, Compare, Refuse, Record, Swap, Sweep, LoaderInv
<1>3. config \in Valid /\ config \in Contents
  BY <1>0, <1>2 DEF Contents, Valid
<1> DEFINE Kept(r) == r \in Loader /\ loader' = [loader EXCEPT ![g] = r]
                      /\ (r.pc \in {"record", "swap", "sweep"} => r.b \in Valid)
<1>4. ASSUME NEW r, Kept(r), config' \in Valid, lastHash' \in Contents, raced' \in BOOLEAN
      PROVE  ReloadTypeOK' /\ LoaderInv'
  <2>1. LoaderInv' /\ loader' \in [Loaders -> Loader]
    BY <1>2, <1>4, CallMoves
  <2> QED BY <1>0, <1>2, <1>4, <2>1 DEF ReloadTypeOK, Loader
<1>5. CASE ReadFile(g)
  <2>1. [Waiting EXCEPT !.pc = "compare", !.b = file] \in Loader
        /\ [Waiting EXCEPT !.pc = "compare", !.b = file].pc = "compare"
    BY <1>0, <1>1 DEF Loader
  <2>2. UNCHANGED <<config, lastHash>> /\ raced' \in BOOLEAN
    BY <1>5 DEF ReadFile
  <2> QED BY <1>0, <1>3, <1>4, <1>5, <2>1, <2>2 DEF ReadFile
<1>6. CASE Compare(g)
  <2>1. UNCHANGED <<config, lastHash, raced>>
    BY <1>6 DEF Compare
  <2>2. PICK r : /\ loader' = [loader EXCEPT ![g] = r]
                 /\ \/ r = Waiting
                    \/ r = [loader[g] EXCEPT !.pc = "record"] /\ loader[g].b \in Valid
                    \/ r = [loader[g] EXCEPT !.pc = "refuse"]
    BY <1>6 DEF Compare
  <2>3. CASE r = Waiting
    BY <1>0, <1>1, <1>3, <1>4, <2>1, <2>2, <2>3
  <2>4. CASE r = [loader[g] EXCEPT !.pc = "record"] /\ loader[g].b \in Valid
    <3>1. r \in Loader /\ r.b = loader[g].b
      BY <1>0, <2>4, LoaderPc
    <3> QED BY <1>0, <1>3, <1>4, <2>1, <2>2, <2>4, <3>1
  <2>5. CASE r = [loader[g] EXCEPT !.pc = "refuse"]
    <3>1. r \in Loader /\ r.pc = "refuse"
      BY <1>0, <2>5, LoaderPc
    <3> QED BY <1>0, <1>3, <1>4, <2>1, <2>2, <3>1
  <2> QED BY <2>2, <2>3, <2>4, <2>5
<1>7. CASE Refuse(g)
  BY <1>0, <1>1, <1>3, <1>4, <1>7 DEF Refuse
<1>8. CASE Record(g)
  <2> DEFINE r == [loader[g] EXCEPT !.pc = "swap", !.prev = config]
  <2>1. r \in Loader /\ r.b = loader[g].b
    BY <1>0, <1>3 DEF Loader
  <2>2. loader' = [loader EXCEPT ![g] = r]
    BY <1>0, <1>8 DEF Record
  <2>3. loader[g].b \in Valid
    BY <1>8 DEF Record, LoaderInv
  <2> HIDE DEF r
  <2> QED BY <1>0, <1>3, <1>4, <1>8, <2>1, <2>2, <2>3 DEF Record
<1>9. CASE Swap(g)
  <2> DEFINE r == [loader[g] EXCEPT !.pc = "sweep"]
  <2>1. r \in Loader /\ r.b = loader[g].b
    BY <1>0, LoaderPc
  <2>2. loader' = [loader EXCEPT ![g] = r]
    BY <1>0, <1>9 DEF Swap
  <2>3. loader[g].b \in Valid
    BY <1>9 DEF Swap, LoaderInv
  <2> HIDE DEF r
  <2> QED BY <1>0, <1>4, <1>9, <2>1, <2>2, <2>3 DEF Swap
<1>10. CASE Sweep(g)
  BY <1>0, <1>1, <1>3, <1>4, <1>10 DEF Sweep
<1> QED BY <1>5, <1>6, <1>7, <1>8, <1>9, <1>10 DEF Load

\* So do the start of the process, its death and an edit of the file.
LEMMA AroundStep ==
  ASSUME ReloadTypeOK, LoaderInv, LoadQueues \/ NewReloader \/ Edit \/ Die
  PROVE  ReloadTypeOK' /\ LoaderInv'
<1>0. loader \in [Loaders -> Loader]
  BY DEF ReloadTypeOK, Loader
<1>1. Waiting \in Loader /\ Waiting.pc = "wait"
  BY DEF Waiting, Loader, Contents
<1>2. CASE LoadQueues
  BY <1>2 DEF LoadQueues, ReloadTypeOK, LoaderInv
<1>3. CASE NewReloader
  BY <1>3 DEF NewReloader, ReloadTypeOK, LoaderInv
<1>4. CASE Edit
  <2>1. edits' \in 0 .. MaxEdits
    BY <1>4, ReloadAssumptions DEF Edit, ReloadTypeOK
  <2> QED BY <1>4, <2>1 DEF Edit, ReloadTypeOK, LoaderInv
<1>5. CASE Die
  <2>1. crashes' \in 0 .. MaxCrashes
    BY <1>5, ReloadAssumptions DEF Die, ReloadTypeOK
  <2>2. loader' \in [Loaders -> Loader] /\ \A g \in Loaders : loader'[g] = Waiting
    BY <1>1, <1>5 DEF Die
  <2>3. LoaderInv'
    BY <1>1, <1>5, <2>2 DEF Die, LoaderInv
  <2> QED BY <1>5, <2>1, <2>2, <2>3 DEF Die, ReloadTypeOK, Loader, Contents
<1> QED BY <1>2, <1>3, <1>4, <1>5

-----------------------------------------------------------------------------
(* Rows of the jobs table *)

\* A row that only changes its status stays good, unless it becomes a new one.
LEMMA StatusMoves ==
  ASSUME NEW r, GoodRow(r), r.st # "new", NEW st \in Statuses
  PROVE  GoodRow([r EXCEPT !.st = st])
<1> DEFINE s == [r EXCEPT !.st = st]
<1>1. /\ s = RowOf(s) /\ s.st = st /\ s.hash = r.hash /\ s.args = r.args /\ s.def = r.def
      /\ s.blank = r.blank /\ s.age = r.age
  BY DEF GoodRow, RowOf
<1>2. Validated(s) /\ Rendered(s)
  <2> HIDE DEF s
  <2> QED BY <1>1 DEF GoodRow, Validated, Rendered
<1> HIDE DEF s
<1>3. GoodRow(s)
  BY <1>1, <1>2 DEF GoodRow
<1> QED BY <1>3 DEF s

\* So does one that grows a day older.
LEMMA AgeMoves ==
  ASSUME NEW r, GoodRow(r), r.age < MaxAge
  PROVE  GoodRow([r EXCEPT !.age = @ + 1])
<1> DEFINE s == [r EXCEPT !.age = @ + 1]
<1>1. /\ s = RowOf(s) /\ s.age = r.age + 1 /\ s.hash = r.hash /\ s.args = r.args /\ s.def = r.def
      /\ s.blank = r.blank /\ s.st = r.st
  BY DEF GoodRow, RowOf
<1>2. r.age + 1 \in 0 .. MaxAge
  BY DefinitionsAssumptions DEF GoodRow
<1>3. Validated(s) /\ Rendered(s)
  <2> HIDE DEF s
  <2> QED BY <1>1 DEF GoodRow, Validated, Rendered
<1> HIDE DEF s
<1>4. GoodRow(s)
  BY <1>1, <1>2, <1>3 DEF GoodRow
<1> QED BY <1>4 DEF s

\* One row written.
LEMMA RowWritten ==
  ASSUME RowsInv, NEW j \in Jobs, NEW r, Row(j, r), GoodRow(r)
  PROVE  RowsInv'
<1>1. job' = [k \in Jobs |-> IF k = j THEN r ELSE job[k]]
  BY DEF Row, RowsInv
<1>2. \A k \in Jobs : job'[k] = IF k = j THEN r ELSE job[k]
  BY <1>1
<1>3. \A k \in Jobs : GoodRow(job'[k])
  BY <1>2 DEF RowsInv
<1>4. job' = [k \in Jobs |-> job'[k]]
  BY <1>1
<1> QED BY <1>3, <1>4 DEF RowsInv, GoodRow, RowOf, Validated, Rendered

\* Jobs that a sweep or recovery ends.
LEMMA RowsFinished ==
  ASSUME RowsInv, NEW S, \A j \in S : job[j].st # "new", job' = Finish(S)
  PROVE  RowsInv'
<1>1. job' = [k \in Jobs |-> IF k \in S THEN [job[k] EXCEPT !.st = "done"] ELSE job[k]]
  BY DEF Finish
<1>2. \A k \in Jobs : job'[k] = IF k \in S THEN [job[k] EXCEPT !.st = "done"] ELSE job[k]
  BY <1>1
<1>3. \A k \in Jobs : GoodRow(job'[k])
  <2> SUFFICES ASSUME NEW k \in Jobs PROVE GoodRow(job'[k])
    OBVIOUS
  <2>1. CASE k \in S
    <3>1. "done" \in Statuses
      BY DEF Statuses
    <3>2. GoodRow([job[k] EXCEPT !.st = "done"])
      BY <2>1, <3>1, StatusMoves DEF RowsInv
    <3> QED BY <1>2, <2>1, <3>2
  <2>2. CASE k \notin S
    BY <1>2, <2>2 DEF RowsInv
  <2> QED BY <2>1, <2>2
<1>4. job' = [k \in Jobs |-> job'[k]]
  BY <1>1
<1> QED BY <1>3, <1>4 DEF RowsInv, GoodRow, RowOf, Validated, Rendered

-----------------------------------------------------------------------------
(* The steps of jobs *)

\* A job that is submitted satisfies the definition it records.
LEMMA SubmitStep ==
  ASSUME RowsInv, NEW j \in Jobs, submitJob(j)
  PROVE  RowsInv'
<1>1. PICK n \in DOMAIN queues, args \in Args :
        /\ ValidateArgs(queues[n], args)
        /\ Row(j, [NoJob EXCEPT !.st = "queued", !.q = n, !.hash = hash(n, queues[n]),
                                !.args = args])
  BY DEF submitJob
<1> DEFINE h == hash(n, queues[n])
           r == [NoJob EXCEPT !.st = "queued", !.q = n, !.hash = h, !.args = args]
<1>2. h[2] = queues[n]
  BY DEF hash
<1>3. \A x \in DOMAIN h[2].args : h[2].args[x].required => x \in DOMAIN args
  BY <1>1, <1>2 DEF ValidateArgs
<1> HIDE DEF h
<1>4. /\ r = RowOf(r) /\ r.st = "queued" /\ r.hash = h /\ r.args = args /\ r.def = Nothing
      /\ r.blank = {} /\ r.age = 0
  <2>1. /\ DOMAIN NoJob = {"st", "q", "hash", "args", "def", "blank", "age"}
        /\ NoJob.def = Nothing /\ NoJob.blank = {} /\ NoJob.age = 0
    BY DEF NoJob
  <2>2. DOMAIN r = DOMAIN NoJob /\ r = [x \in DOMAIN r |-> r[x]]
    OBVIOUS
  <2>3. /\ r.st = "queued" /\ r.hash = h /\ r.args = args
        /\ r.def = Nothing /\ r.blank = {} /\ r.age = 0
    BY <2>1
  <2> HIDE DEF r
  <2> QED BY <2>1, <2>2, <2>3 DEF RowOf
<1>5. Row(j, r)
  BY <1>1 DEF h
<1> HIDE DEF r
<1>6. Validated(r) /\ Rendered(r)
  BY <1>3, <1>4 DEF Validated, Rendered
<1>7. GoodRow(r)
  BY <1>4, <1>6, DefinitionsAssumptions DEF GoodRow, Statuses
<1> QED BY <1>5, <1>7, RowWritten

\* A job is rendered under the definition in force, from the arguments it was
\* submitted with.
LEMMA RunStep ==
  ASSUME ReloadTypeOK, RowsInv, NEW j \in Jobs, runJob(j)
  PROVE  RowsInv'
<1>0. GoodRow(job[j]) /\ job[j].st = "claimed" /\ Up
  BY DEF RowsInv, runJob
<1>1. CASE job[j].q \in DOMAIN queues
  <2> DEFINE n == job[j].q
             d == queues[n]
             h == hash(n, d)
             B == Blank(d, job[j].args)
             r == [job[j] EXCEPT !.st = "running", !.def = h, !.blank = B]
  <2>1. Row(j, r)
    BY <1>1 DEF runJob
  <2>2. config \in Valid
    BY <1>0 DEF ReloadTypeOK, Up
  <2>3. DOMAIN d.args \subseteq ArgNames /\ templateRefs(d.refs) \ {"input"} \subseteq DOMAIN d.args
    BY <1>1, <2>2, Defined DEF queues
  <2>4. B \subseteq DOMAIN d.args
        /\ \A x \in B : x \in DOMAIN job[j].args => job[j].args[x] = "empty"
    BY <2>3 DEF Blank
  <2> HIDE DEF d, h, B
  <2>6. /\ r = RowOf(r) /\ r.st = "running" /\ r.hash = job[j].hash /\ r.args = job[j].args
        /\ r.def = h /\ r.blank = B /\ r.age = job[j].age
    <3>1. DOMAIN job[j] = {"st", "q", "hash", "args", "def", "blank", "age"}
      BY <1>0 DEF GoodRow, RowOf
    <3>2. DOMAIN r = DOMAIN job[j] /\ r = [x \in DOMAIN r |-> r[x]]
      OBVIOUS
    <3>3. /\ r.st = "running" /\ r.hash = job[j].hash /\ r.args = job[j].args
          /\ r.def = h /\ r.blank = B /\ r.age = job[j].age
      BY <3>1
    <3> HIDE DEF r
    <3> QED BY <3>1, <3>2, <3>3 DEF RowOf
  <2> HIDE DEF r
  <2>7. Validated(r) /\ Rendered(r)
    BY <1>0, <2>4, <2>6 DEF GoodRow, Validated, Rendered
  <2>8. GoodRow(r)
    BY <1>0, <2>3, <2>4, <2>6, <2>7 DEF GoodRow, Statuses
  <2> QED BY <2>1, <2>8, RowWritten
<1>2. CASE job[j].q \notin DOMAIN queues
  <2>1. Row(j, [job[j] EXCEPT !.st = "done"])
    BY <1>2 DEF runJob
  <2>2. GoodRow([job[j] EXCEPT !.st = "done"])
    BY <1>0, StatusMoves DEF Statuses
  <2> QED BY <2>1, <2>2, RowWritten
<1> QED BY <1>1, <1>2

\* Claims and ends change the status alone.
LEMMA MoveStep ==
  ASSUME RowsInv, NEW j \in Jobs, Claim(j) \/ endJob(j)
  PROVE  RowsInv'
<1>1. GoodRow(job[j]) /\ job[j].st # "new"
  BY DEF RowsInv, Claim, endJob
<1>2. PICK st \in Statuses : Row(j, [job[j] EXCEPT !.st = st])
  BY DEF Claim, endJob, Statuses
<1>3. GoodRow([job[j] EXCEPT !.st = st])
  BY <1>1, StatusMoves
<1> QED BY <1>2, <1>3, RowWritten

\* So does a sweep of the queues that disappeared, and recovery.
LEMMA EndStep ==
  ASSUME RowsInv, (\E g \in Loaders : FailQueued(g)) \/ (Start /\ ~UNCHANGED job)
  PROVE  RowsInv'
<1>1. PICK S : /\ \A j \in S : job[j].st # "new"
               /\ job' = Finish(S)
  <2>1. CASE \E g \in Loaders : FailQueued(g)
    <3>1. PICK gone : job' = Finish({j \in Jobs : job[j].st = "queued" /\ job[j].q \in gone})
      BY <2>1 DEF FailQueued
    <3> QED BY <3>1
  <2>2. CASE Start /\ ~UNCHANGED job
    <3>1. job' = Finish({j \in Jobs : \/ job[j].st \in {"claimed", "running"}
                                      \/ job[j].st = "queued" /\ job[j].q \notin DOMAIN queues})
      BY <2>2 DEF Start
    <3> QED BY <3>1
  <2> QED BY <2>1, <2>2
<1> QED BY <1>1, RowsFinished

\* A day makes finished jobs older, up to the bound.
LEMMA DayStep ==
  ASSUME RowsInv, Day
  PROVE  RowsInv'
<1>1. job' = [k \in Jobs |-> IF Ages(k) THEN [job[k] EXCEPT !.age = @ + 1] ELSE job[k]]
  BY DEF Day
<1>2. \A k \in Jobs : job'[k] = IF Ages(k) THEN [job[k] EXCEPT !.age = @ + 1] ELSE job[k]
  BY <1>1
<1>3. \A k \in Jobs : GoodRow(job'[k])
  <2> SUFFICES ASSUME NEW k \in Jobs PROVE GoodRow(job'[k])
    OBVIOUS
  <2>1. CASE Ages(k)
    <3>1. GoodRow([job[k] EXCEPT !.age = @ + 1])
      BY <2>1, AgeMoves DEF RowsInv, Ages
    <3> QED BY <1>2, <2>1, <3>1
  <2>2. CASE ~Ages(k)
    BY <1>2, <2>2 DEF RowsInv
  <2> QED BY <2>1, <2>2
<1>4. job' = [k \in Jobs |-> job'[k]]
  BY <1>1
<1> QED BY <1>3, <1>4 DEF RowsInv, GoodRow, RowOf, Validated, Rendered

-----------------------------------------------------------------------------
(* The pruner *)

\* Queues of a config that parsed have names, so a pass over them is well formed.
LEMMA PassBegins ==
  ASSUME ReloadTypeOK, PruneBegin
  PROVE  PassInv'
<1>1. config \in Valid /\ config \in Files
  BY DEF PruneBegin, Up, ReloadTypeOK, Valid
<1>2. DOMAIN queues \subseteq QueueNames
  BY <1>1 DEF queues, QueueNames
<1>3. pruner' = [on |-> TRUE, qs |-> config, left |-> DOMAIN queues]
  BY DEF PruneBegin
<1>4. pruner' \in [on : BOOLEAN, qs : Contents, left : SUBSET QueueNames]
  BY <1>1, <1>2, <1>3 DEF Contents
<1> QED BY <1>4 DEF PassInv

\* A pass leaves its queues one by one, or ends.
LEMMA PassMoves ==
  ASSUME PassInv,
         pruner' = Idle \/ \E n \in pruner.left : pruner' = [pruner EXCEPT !.left = @ \ {n}]
  PROVE  PassInv'
<1>1. CASE pruner' = Idle
  <2>1. Idle \in [on : BOOLEAN, qs : Contents, left : SUBSET QueueNames] /\ Idle.left = {}
    BY DEF Idle, Contents
  <2> QED BY <1>1, <2>1 DEF PassInv
<1>2. ASSUME NEW n \in pruner.left, pruner' = [pruner EXCEPT !.left = @ \ {n}]
      PROVE  PassInv'
  BY <1>2 DEF PassInv
<1> QED BY <1>1, <1>2

-----------------------------------------------------------------------------
(* Every step keeps DefInv *)

\* A fresh install satisfies it.
LEMMA DefInit == Init => DefInv
<1> SUFFICES ASSUME Init PROVE DefInv
  OBVIOUS
<1>1. ReloadTypeOK /\ LoaderInv
  <2>1. Waiting \in Loader /\ Waiting.pc = "wait"
    BY DEF Waiting, Loader, Contents
  <2>2. loader = [g \in Loaders |-> Waiting]
    BY DEF Init, ReloadInit
  <2>3. loader \in [Loaders -> Loader] /\ \A g \in Loaders : loader[g] = Waiting
    BY <2>1, <2>2
  <2>4. LoaderInv
    BY <2>1, <2>3 DEF LoaderInv
  <2>5. edits \in 0 .. MaxEdits /\ crashes \in 0 .. MaxCrashes
    BY ReloadAssumptions DEF Init, ReloadInit
  <2> QED BY <2>3, <2>4, <2>5 DEF Init, ReloadInit, ReloadTypeOK, Loader, Contents
<1>2. RowsInv
  <2>1. GoodRow(NoJob)
    BY DefinitionsAssumptions DEF NoJob, GoodRow, RowOf, Validated, Rendered, Statuses
  <2>2. job = [j \in Jobs |-> NoJob]
    BY DEF Init
  <2> QED BY <2>1, <2>2 DEF RowsInv
<1>3. files \subseteq Jobs /\ PassInv
  BY DEF Init, Idle, PassInv, Contents
<1> QED BY <1>1, <1>2, <1>3 DEF DefInv

\* One step per kind of action.
LEMMA DefStep == DefInv /\ [Next]_vars => DefInv'
<1> SUFFICES ASSUME DefInv, [Next]_vars PROVE DefInv'
  OBVIOUS
<1> USE DEF DefInv
<1>1. ASSUME UNCHANGED reloadVars PROVE (ReloadTypeOK /\ LoaderInv)'
  BY <1>1 DEF reloadVars, ReloadTypeOK, LoaderInv
<1>2. ASSUME UNCHANGED job PROVE RowsInv'
  BY <1>2 DEF RowsInv, GoodRow, RowOf, Validated, Rendered
<1>3. ASSUME UNCHANGED pruner PROVE PassInv'
  BY <1>3 DEF PassInv
<1>4. CASE Start
  <2>1. LoadQueues \/ NewReloader
    BY <1>4 DEF Start
  <2>2. RowsInv'
    BY <1>2, <1>4, EndStep
  <2>3. UNCHANGED <<files, pruner>>
    BY <1>4 DEF Start
  <2> QED BY <1>3, <2>1, <2>2, <2>3, AroundStep
<1>5. CASE Stop
  BY <1>2, <1>5, AroundStep, PassMoves DEF Stop
<1>6. CASE Alone(Edit)
  BY <1>2, <1>3, <1>6, AroundStep DEF Alone
<1>7. CASE Day
  BY <1>1, <1>3, <1>7, DayStep DEF Day
<1>8. ASSUME NEW g \in Loaders, ReloadIfChanged(g) PROVE DefInv'
  <2>1. CASE Alone(Load(g))
    BY <1>2, <1>3, <2>1, LoadStep DEF Alone
  <2>2. CASE FailQueued(g)
    <3>1. RowsInv'
      BY <2>2, EndStep
    <3>2. Sweep(g) /\ UNCHANGED <<files, pruner>>
      BY <2>2 DEF FailQueued
    <3> QED BY <1>3, <3>1, <3>2, LoadStep
  <2> QED BY <1>8, <2>1, <2>2 DEF ReloadIfChanged
<1>9. ASSUME NEW j \in Jobs, submitJob(j) \/ Executor(j) PROVE DefInv'
  <2>1. RowsInv'
    BY <1>9, SubmitStep, RunStep, MoveStep DEF Executor
  <2>2. UNCHANGED <<reloadVars, pruner>> /\ files' \subseteq Jobs
    BY <1>9 DEF submitJob, Executor, Claim, runJob, endJob
  <2> QED BY <1>1, <1>3, <2>1, <2>2
<1>10. CASE PruneBegin
  BY <1>1, <1>2, <1>10, PassBegins DEF PruneBegin
<1>11. CASE PruneEnd
  BY <1>1, <1>2, <1>11, PassMoves DEF PruneEnd
<1>12. ASSUME NEW n \in pruner.left, PruneQueue(n) \/ PruneFails(n) PROVE DefInv'
  <2>1. PassInv'
    BY <1>12, PassMoves DEF PruneQueue, PruneFails
  <2>2. UNCHANGED <<reloadVars, job>> /\ files' \subseteq Jobs
    BY <1>12 DEF PruneQueue, PruneFails
  <2> QED BY <1>1, <1>2, <2>1, <2>2
<1>13. CASE UNCHANGED vars
  BY <1>1, <1>2, <1>3, <1>13 DEF vars
<1> QED BY <1>4, <1>5, <1>6, <1>7, <1>8, <1>9, <1>10, <1>11, <1>12, <1>13 DEF Next

\* DefInv is an invariant of the specification.
LEMMA DefAlways == Spec => []DefInv
BY DefInit, DefStep, PTL DEF Spec

-----------------------------------------------------------------------------
(* Theorems *)

\* TypeOK always holds: whatever is written to queues.yaml and whenever it is read,
\* the config the process runs under is one that parsed.
THEOREM DefinitionsTypeCorrect == Spec => []TypeOK
<1>1. DefInv => TypeOK
  BY DEF DefInv, TypeOK, RowsInv, GoodRow, PassInv, Statuses
<1> QED BY <1>1, DefAlways, PTL

\* RenderedAsValidated always holds: whatever the definitions become between a job's
\* submission and its runs, through requeues and restarts, an argument it had to give
\* is in its prompt, unless the client gave the empty string.
THEOREM ValidatedRendersFull == Spec => []RenderedAsValidated
<1>1. DefInv => RenderedAsValidated
  <2> SUFFICES ASSUME DefInv, NEW j \in Jobs, job[j].st # "new",
                      NEW x \in job[j].blank \intersect DOMAIN job[j].hash[2].args,
                      job[j].hash[2].args[x].required
               PROVE  x \in DOMAIN job[j].args /\ job[j].args[x] = "empty"
    BY DEF RenderedAsValidated
  <2>1. Validated(job[j]) /\ Rendered(job[j])
    BY DEF DefInv, RowsInv, GoodRow
  <2> QED BY <2>1 DEF Validated, Rendered
<1> QED BY <1>1, DefAlways, PTL

=============================================================================
