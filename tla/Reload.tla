------------------------------- MODULE Reload -------------------------------
(***************************************************************************)
(* How queues.yaml reaches the running process: the read at start-up       *)
(* (cmd/spool/main.go) and the Reloader (internal/executor/reload.go),     *)
(* which two goroutines call without a lock, the poll and the SIGHUP       *)
(* handler.  Spool has what a reload does to the jobs; here the file may   *)
(* also be broken or missing, and every access to the Reloader's memory is *)
(* a step of its own.  Both hashes are strings of one length, so a racing  *)
(* read of lastHash returns one of the two.                                *)
(***************************************************************************)
EXTENDS QueueFile

CONSTANTS
  Missing,      \* the file is not there, or cannot be read
  Loaders,      \* the goroutines that call ReloadIfChanged
  MaxEdits,     \* bound: edits
  MaxCrashes    \* bound: process deaths

ASSUME ReloadAssumptions ==
  /\ Missing \notin Files
  /\ MaxEdits \in Nat /\ MaxCrashes \in Nat

Contents == Files \union {Missing}

VARIABLES
  file,      \* what is on disk
  config,    \* the QueueSet in memory; Missing before it is loaded
  lastHash,  \* Reloader.lastHash; Missing is the empty string
  boot,      \* "down", "loaded" (LoadQueues is done) or "up"
  loader,    \* each goroutine: where it is, the contents it has read, the
             \* config before its swap
  edits, crashes,
  raced      \* history: an edit fell into start-up, or two calls overlapped, and no
             \* call that was alone has taken a changed file in since

reloadVars == <<file, config, lastHash, boot, loader, edits, crashes, raced>>

Waiting == [pc |-> "wait", b |-> Missing, prev |-> Missing]

\* The QueueSet in memory.
queues == Queues[config]

-----------------------------------------------------------------------------
(* Start-up *)

\* A file that does not load ends the process, and the supervisor tries again.
LoadQueues ==
  /\ boot = "down" /\ file \in Valid
  /\ config' = file
  /\ boot' = "loaded"
  /\ UNCHANGED <<file, lastHash, loader, edits, crashes, raced>>

NewReloader ==
  /\ boot = "loaded"
  /\ lastHash' = file
  /\ boot' = "up"
  /\ UNCHANGED <<file, config, loader, edits, crashes, raced>>

-----------------------------------------------------------------------------
(* ReloadIfChanged *)

\* No other call is between its read of the file and its swap.
ByItself(g) == \A h \in Loaders \ {g} : loader[h].pc \in {"wait", "sweep"}

\* os.ReadFile: an error ends the call.
ReadFile(g) ==
  /\ boot = "up" /\ loader[g].pc = "wait"
  /\ file # Missing
  /\ loader' = [loader EXCEPT ![g] = [Waiting EXCEPT !.pc = "compare", !.b = file]]
  /\ raced' = (raced \/ ~ByItself(g))
  /\ UNCHANGED <<file, config, lastHash, boot, edits, crashes>>

\* Mutant: the contents are adopted without parsing them first.
CompareUnparsed(g) ==
  /\ loader[g].pc = "compare"
  /\ loader' = [loader EXCEPT ![g] = IF @.b = lastHash THEN Waiting
                                     ELSE [@ EXCEPT !.pc = "record"]]
  /\ UNCHANGED <<file, config, lastHash, boot, edits, crashes, raced>>

\* Unchanged contents end the call; changed ones are parsed.
Compare(g) ==
  /\ loader[g].pc = "compare"
  /\ loader' = [loader EXCEPT ![g] = IF @.b = lastHash THEN Waiting
                                     ELSE IF @.b \in Valid THEN [@ EXCEPT !.pc = "record"]
                                     ELSE [@ EXCEPT !.pc = "refuse"]]
  /\ UNCHANGED <<file, config, lastHash, boot, edits, crashes, raced>>

\* The hash of a broken file is recorded, so that it is complained about once.
Refuse(g) ==
  /\ loader[g].pc = "refuse"
  /\ lastHash' = loader[g].b
  /\ loader' = [loader EXCEPT ![g] = Waiting]
  /\ raced' = (raced /\ ~ByItself(g))
  /\ UNCHANGED <<file, config, boot, edits, crashes>>

\* Mutant: the file is hashed again instead of the contents that were parsed.
RecordFile(g) ==
  /\ loader[g].pc = "record"
  /\ lastHash' = file
  /\ loader' = [loader EXCEPT ![g].pc = "swap", ![g].prev = config]
  /\ UNCHANGED <<file, config, boot, edits, crashes, raced>>

Record(g) ==
  /\ loader[g].pc = "record"
  /\ lastHash' = loader[g].b
  /\ loader' = [loader EXCEPT ![g].pc = "swap", ![g].prev = config]
  /\ UNCHANGED <<file, config, boot, edits, crashes, raced>>

Swap(g) ==
  /\ loader[g].pc = "swap"
  /\ config' = loader[g].b
  /\ loader' = [loader EXCEPT ![g].pc = "sweep"]
  /\ raced' = (raced /\ ~(ByItself(g) /\ lastHash = loader[g].b))
  /\ UNCHANGED <<file, lastHash, boot, edits, crashes>>

\* The queues that disappeared; Definitions fails their jobs in this step.
Removed(g) == DOMAIN Queues[loader[g].prev] \ DOMAIN Queues[loader[g].b]

Sweep(g) ==
  /\ loader[g].pc = "sweep"
  /\ loader' = [loader EXCEPT ![g] = Waiting]
  /\ UNCHANGED <<file, config, lastHash, boot, edits, crashes, raced>>

-----------------------------------------------------------------------------
(* Around the program *)

Edit ==
  /\ edits < MaxEdits
  /\ \E f \in Contents \ {file} : file' = f
  /\ edits' = edits + 1
  /\ raced' = (raced \/ boot = "loaded")
  /\ UNCHANGED <<config, lastHash, boot, loader, crashes>>

Die ==
  /\ boot # "down"
  /\ crashes < MaxCrashes
  /\ crashes' = crashes + 1
  /\ boot' = "down"
  /\ config' = Missing /\ lastHash' = Missing
  /\ loader' = [g \in Loaders |-> Waiting]
  /\ raced' = FALSE
  /\ UNCHANGED <<file, edits>>

ReloadInit ==
  /\ file \in Contents
  /\ config = Missing /\ lastHash = Missing
  /\ boot = "down"
  /\ loader = [g \in Loaders |-> Waiting]
  /\ edits = 0 /\ crashes = 0
  /\ raced = FALSE

\* A call of ReloadIfChanged up to its sweep.
Load(g) == ReadFile(g) \/ Compare(g) \/ Refuse(g) \/ Record(g) \/ Swap(g)

-----------------------------------------------------------------------------
(* Properties *)

\* The running config is always one that parsed: a typo does not take the queues
\* away.
ReloadTypeOK ==
  /\ file \in Contents
  /\ boot \in {"down", "loaded", "up"}
  /\ config \in IF boot = "down" THEN {Missing} ELSE Valid
  /\ lastHash \in Contents
  /\ loader \in [Loaders -> [pc : {"wait", "compare", "refuse", "record", "swap", "sweep"},
                             b : Contents, prev : Contents]]
  /\ edits \in 0 .. MaxEdits /\ crashes \in 0 .. MaxCrashes
  /\ raced \in BOOLEAN

\* "Polling cannot miss an edit": definitions that parse and stay in the file are
\* running in the end, whatever broken, missing or reverted file came before, and
\* whatever SIGHUP loads.  The one exception: an edit between the two reads of
\* start-up, or a poll and a SIGHUP that overlapped, left lastHash and the config
\* apart, and no call since then has taken in a changed file on its own.
EditIsAdopted ==
  <>[][FALSE]_file /\ <>[](file \in Valid)
    => <>[](config = file) \/ <>[](raced /\ lastHash = file /\ config # file)

\* The same as the comment on PollInterval has it, which start-up and SIGHUP refute.
NoEditIsMissed == \A v \in Valid : <>[](file = v) => <>[](config = v)

=============================================================================
