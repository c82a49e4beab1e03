-------------------------------- MODULE Gate --------------------------------
(***************************************************************************)
(* The gate in front of every queue (the executor_state row) and the       *)
(* credential state machine of the auth manager, which close and open it   *)
(* together.  Five kinds of goroutine take part: the executor, the auth    *)
(* manager's loop, POST /v1/auth/check, a login's last request, and the    *)
(* operator's pause and resume.  Each store call is a step of its own, and *)
(* so is each section under Manager.mu.                                    *)
(*                                                                         *)
(* The claude lock is the mutual exclusion ClaudeLock implements.  What a  *)
(* claude process reports is taken to be right: an auth failure comes from *)
(* a credential that does not work.                                        *)
(***************************************************************************)
EXTENDS Naturals

CONSTANTS
  Checks,      \* concurrent POST /v1/auth/check requests
  Operators,   \* concurrent pause and resume requests
  Events,      \* what happens around the program, see EventKinds
  KeepaliveOn, \* login mode with a positive keepalive_interval
  MaxCrashes   \* bound: restarts of the process

EventKinds == {"expire",    \* the session stops working
               "restore",   \* it is repaired by other means than this program
               "login",     \* the user completes a login attempt
               "usage",     \* a job runs into the usage limit
               "cut"}       \* a request's context ends while it is handled

Goroutines == {"executor", "manager", "login"}

ASSUME GateAssumptions ==
  /\ MaxCrashes \in Nat
  /\ Events \subseteq EventKinds
  /\ KeepaliveOn \in BOOLEAN
  /\ Goroutines \intersect (Checks \union Operators) = {}
  /\ Checks \intersect Operators = {}
  /\ "free" \notin Checks

Actors == Goroutines \union Checks \union Operators
Keepers == {"manager"} \union Checks      \* who runs Keepalive

VARIABLES
  gate,       \* executor_state: [st, until]; until relates blocked_until to now
  cred,       \* the session: valid; stale: only requests fail; out: logged out
  mstate,     \* Manager.state
  lock,       \* holder of the claude lock
  act,        \* each goroutine: program counter, values read, where to return
  told,       \* history: the last auth event enqueued in this process's life
  warned,     \* history: auth.required enqueued since mstate became expired
  usageTold,  \* history: executor.blocked_usage enqueued since the last reset
  attempt,    \* Manager.attempt: nil, or an attempt that is live or over
  crashes

hist == <<told, warned, usageTold>>
vars == <<gate, cred, mstate, lock, act, hist, attempt, crashes>>

-----------------------------------------------------------------------------
(* internal/store/runtime.go *)

GateState == [st : {"ready", "blocked_auth", "blocked_usage", "paused"},
              until : {"none", "future", "now", "past"}]

To(st) == [st |-> st, until |-> IF st = "blocked_usage" THEN "future" ELSE "none"]

Runnable == gate.st = "ready" \/ (gate.st = "blocked_usage" /\ gate.until = "past")

\* Time passes the reset time of a usage block.
Tick ==
  /\ gate.until \in {"future", "now"}
  /\ gate' = [gate EXCEPT !.until = IF @ = "future" THEN "now" ELSE "past"]
  /\ usageTold' = FALSE
  /\ UNCHANGED <<cred, mstate, lock, act, told, warned, attempt, crashes>>

-----------------------------------------------------------------------------
(* Steps of a goroutine *)

ActState == [pc : {"idle", "pick", "lift", "job", "blk_read", "blk_set", "blk_emit",
                   "expired", "exp_read", "exp_set", "exp_emit",
                   "ok", "ok_read", "ok_set", "ok_emit",
                   "probe", "recheck", "acquire", "keepalive", "login", "url", "late", "res_set"},
             was : {"unknown", "ok", "expired"},
             seen : {"ready", "blocked_auth", "blocked_usage", "paused"},
             ret : {"idle", "recheck", "ok"}]

Idle == [pc |-> "idle", was |-> "unknown", seen |-> "ready", ret |-> "idle"]

At(a, pc) == act[a].pc = pc
Goto(a, pc) == act' = [act EXCEPT ![a].pc = pc]

\* A procedure returns to its caller; Keepalive's deferred release gives the
\* lock back.
Return(a) ==
  /\ act' = [act EXCEPT ![a] = [Idle EXCEPT !.pc = act[a].ret]]
  /\ lock' = IF lock = a THEN "free" ELSE lock

-----------------------------------------------------------------------------
(* observeExpired: internal/auth/manager.go *)

ObserveExpired(a) ==
  /\ At(a, "expired")
  /\ mstate' = "expired"
  /\ \/ /\ mstate = "expired"
        /\ Return(a)
        /\ UNCHANGED warned
     \/ /\ mstate # "expired"
        /\ Goto(a, "exp_read")
        /\ warned' = FALSE
        /\ UNCHANGED lock
  /\ UNCHANGED <<gate, cred, told, usageTold, attempt, crashes>>

\* Mutant: the event is tied to closing the gate.
ExpiredReadSilent(a) ==
  /\ At(a, "exp_read")
  /\ IF gate.st = "blocked_auth" THEN Return(a) ELSE Goto(a, "exp_set") /\ UNCHANGED lock
  /\ UNCHANGED <<gate, cred, mstate, hist, attempt, crashes>>

ExpiredRead(a) ==
  /\ At(a, "exp_read")
  /\ Goto(a, IF gate.st = "blocked_auth" THEN "exp_emit" ELSE "exp_set")
  /\ UNCHANGED <<gate, cred, mstate, lock, hist, attempt, crashes>>

ExpiredSet(a) ==
  /\ At(a, "exp_set")
  /\ gate' = To("blocked_auth")
  /\ Goto(a, "exp_emit")
  /\ UNCHANGED <<cred, mstate, lock, hist, attempt, crashes>>

ExpiredEmit(a) ==
  /\ At(a, "exp_emit")
  /\ told' = "required" /\ warned' = TRUE
  /\ Return(a)
  /\ UNCHANGED <<gate, cred, mstate, usageTold, attempt, crashes>>

-----------------------------------------------------------------------------
(* transitionToOK: internal/auth/manager.go *)

TransitionToOK(a) ==
  /\ At(a, "ok")
  /\ mstate' = "ok"
  /\ act' = [act EXCEPT ![a].pc = "ok_read", ![a].was = mstate, ![a].ret = "idle"]
  /\ UNCHANGED <<gate, cred, lock, hist, attempt, crashes>>

\* Mutant: only the manager's own memory decides, as if it outlived a restart.
OKReadMemory(a) ==
  /\ At(a, "ok_read")
  /\ \/ act[a].was # "expired" /\ Return(a)
     \/ /\ act[a].was = "expired"
        /\ act' = [act EXCEPT ![a].pc = IF gate.st = "blocked_auth" THEN "ok_set" ELSE "ok_emit",
                              ![a].was = "unknown"]
        /\ UNCHANGED lock
  /\ UNCHANGED <<gate, cred, mstate, hist, attempt, crashes>>

OKRead(a) ==
  /\ At(a, "ok_read")
  /\ \/ /\ act[a].was # "expired" /\ gate.st # "blocked_auth"
        /\ Return(a)
     \/ /\ act[a].was = "expired" \/ gate.st = "blocked_auth"
        /\ act' = [act EXCEPT ![a].pc = IF gate.st = "blocked_auth" THEN "ok_set" ELSE "ok_emit",
                              ![a].was = "unknown"]
        /\ UNCHANGED lock
  /\ UNCHANGED <<gate, cred, mstate, hist, attempt, crashes>>

OKSet(a) ==
  /\ At(a, "ok_set")
  /\ gate' = To("ready")
  /\ Goto(a, "ok_emit")
  /\ UNCHANGED <<cred, mstate, lock, hist, attempt, crashes>>

OKEmit(a) ==
  /\ At(a, "ok_emit")
  /\ told' = "restored"
  /\ Return(a)
  /\ UNCHANGED <<gate, cred, mstate, warned, usageTold, attempt, crashes>>

-----------------------------------------------------------------------------
(* The executor: step, runJob, block *)

\* The gate is read.  Open: pick a queue.  At the reset time exactly: lift it.
\* Closed: wait.
ReadGate ==
  /\ At("executor", "idle")
  /\ \/ Runnable /\ Goto("executor", "pick")
     \/ gate.st = "blocked_usage" /\ gate.until = "now" /\ Goto("executor", "lift")
  /\ UNCHANGED <<gate, cred, mstate, lock, hist, attempt, crashes>>

LiftUsageBlock ==
  /\ At("executor", "lift")
  /\ gate' = To("ready")
  /\ Goto("executor", "idle")
  /\ UNCHANGED <<cred, mstate, lock, hist, attempt, crashes>>

\* Nothing is queued, or a job was claimed and its process starts under the lock.
StartJob ==
  /\ At("executor", "pick")
  /\ \/ Goto("executor", "idle") /\ UNCHANGED lock
     \/ lock = "free" /\ lock' = "executor" /\ Goto("executor", "job")
  /\ UNCHANGED <<gate, cred, mstate, hist, attempt, crashes>>

\* The job ends, the lock is released, and runJob acts on the verdict: success
\* or a failure of its own, a usage limit, or an auth failure.
JobEnds ==
  /\ At("executor", "job")
  /\ \/ Goto("executor", "idle")
     \/ cred = "valid" /\ "usage" \in Events /\ Goto("executor", "blk_read")
     \/ cred # "valid" /\ Goto("executor", "expired")
  /\ lock' = "free"
  /\ UNCHANGED <<gate, cred, mstate, hist, attempt, crashes>>

BlockRead ==
  /\ At("executor", "blk_read")
  /\ act' = [act EXCEPT !["executor"].pc = "blk_set", !["executor"].seen = gate.st]
  /\ UNCHANGED <<gate, cred, mstate, lock, hist, attempt, crashes>>

BlockSet ==
  /\ At("executor", "blk_set")
  /\ gate' = To("blocked_usage")
  /\ act' = [act EXCEPT !["executor"] =
       [Idle EXCEPT !.pc = IF act["executor"].seen = "blocked_usage" THEN "idle" ELSE "blk_emit"]]
  /\ UNCHANGED <<cred, mstate, lock, hist, attempt, crashes>>

BlockEmit ==
  /\ At("executor", "blk_emit")
  /\ usageTold' = TRUE
  /\ Goto("executor", "idle")
  /\ UNCHANGED <<gate, cred, mstate, lock, told, warned, attempt, crashes>>

-----------------------------------------------------------------------------
(* The auth manager's loop and its two checks *)

\* keepaliveDue: never without an interval or while Manager.attempt is set; expired,
\* a cheap probe goes first; else the interval decides.
ManagerTick ==
  /\ At("manager", "idle") /\ KeepaliveOn /\ attempt = "nil"
  /\ \/ /\ mstate = "expired"
        /\ act' = [act EXCEPT !["manager"].pc = "probe", !["manager"].ret = "recheck"]
     \/ /\ mstate # "expired"
        /\ act' = [act EXCEPT !["manager"].pc = "acquire", !["manager"].ret = "idle"]
  /\ UNCHANGED <<gate, cred, mstate, lock, hist, attempt, crashes>>

\* Probe: what `claude auth status` says of the local login, or an error.
Probe(a) ==
  /\ At(a, "probe")
  /\ \/ /\ cred # "out"
        /\ mstate' = "ok"
        /\ Goto(a, act[a].ret)
     \/ /\ cred = "out"
        /\ Goto(a, "expired")
        /\ UNCHANGED mstate
     \/ /\ Goto(a, IF act[a].ret = "ok" THEN "ok" ELSE "idle")
        /\ UNCHANGED mstate
  /\ UNCHANGED <<gate, cred, lock, hist, attempt, crashes>>

\* keepaliveDue, after the probe: due only if the state is now ok.
Recheck ==
  /\ At("manager", "recheck")
  /\ act' = [act EXCEPT !["manager"].pc = IF mstate = "ok" THEN "acquire" ELSE "idle",
                        !["manager"].ret = "idle"]
  /\ UNCHANGED <<gate, cred, mstate, lock, hist, attempt, crashes>>

CheckAuth(a) ==
  /\ a \in Checks /\ At(a, "idle")
  /\ Goto(a, "acquire")
  /\ UNCHANGED <<gate, cred, mstate, lock, hist, attempt, crashes>>

Acquire(a) ==
  /\ At(a, "acquire")
  /\ lock = "free"
  /\ lock' = a
  /\ Goto(a, "keepalive")
  /\ UNCHANGED <<gate, cred, mstate, hist, attempt, crashes>>

\* Keepalive's request: it works, fails to authenticate, or fails otherwise.
KeepaliveOK(a) ==
  /\ At(a, "keepalive") /\ cred = "valid"
  /\ Goto(a, "ok")
  /\ UNCHANGED <<gate, cred, mstate, lock, hist, attempt, crashes>>

KeepaliveFails(a) ==
  /\ At(a, "keepalive")
  /\ \/ cred # "valid" /\ Goto(a, "expired") /\ UNCHANGED lock
     \/ Return(a)
  /\ UNCHANGED <<gate, cred, mstate, hist, attempt, crashes>>

-----------------------------------------------------------------------------
(* Login, pause, resume *)

\* StartLogin; the attempt holds the lock until it ends.
StartLogin ==
  /\ "login" \in Events
  /\ At("login", "idle")
  /\ lock = "free"
  /\ lock' = "login"
  /\ Goto("login", "login")
  /\ UNCHANGED <<gate, cred, mstate, hist, attempt, crashes>>

\* The child printed its URL, and Manager.attempt is set: also when the attempt
\* reached its TTL meanwhile, and nobody is left to clear it.
PublishLogin ==
  /\ \/ At("login", "login") /\ attempt' = "live" /\ Goto("login", "url")
     \/ At("login", "late") /\ attempt' = "over" /\ Goto("login", "idle")
  /\ UNCHANGED <<gate, cred, mstate, lock, hist, crashes>>

\* finishAttempt gives the lock back and clears Manager.attempt if it is this one; a
\* submitted code that was accepted goes on to Probe and then, whatever Probe said,
\* to transitionToOK.
FinishLogin ==
  /\ lock' = "free"
  /\ \/ /\ At("login", "url")
        /\ attempt' = "nil"
        /\ \/ /\ cred' = "valid"
              /\ act' = [act EXCEPT !["login"].pc = "probe", !["login"].ret = "ok"]
           \/ Goto("login", "idle") /\ UNCHANGED cred
     \/ /\ At("login", "login")
        /\ \E pc \in {"idle", "late"} : Goto("login", pc)
        /\ UNCHANGED <<cred, attempt>>
  /\ UNCHANGED <<gate, mstate, hist, crashes>>

PauseExecutor(a) ==
  /\ a \in Operators /\ At(a, "idle")
  /\ gate' = To("paused")
  /\ UNCHANGED <<cred, mstate, lock, act, hist, attempt, crashes>>

ResumeRead(a) ==
  /\ a \in Operators /\ At(a, "idle")
  /\ gate.st # "blocked_auth"
  /\ Goto(a, "res_set")
  /\ UNCHANGED <<gate, cred, mstate, lock, hist, attempt, crashes>>

ResumeSet(a) ==
  /\ At(a, "res_set")
  /\ gate' = To("ready")
  /\ Goto(a, "idle")
  /\ UNCHANGED <<cred, mstate, lock, hist, attempt, crashes>>

-----------------------------------------------------------------------------
(* Around the program *)

SessionChanges ==
  /\ \/ "expire" \in Events /\ cred = "valid" /\ cred' \in {"stale", "out"}
     \/ "restore" \in Events /\ cred # "valid" /\ cred' = "valid"
  /\ UNCHANGED <<gate, mstate, lock, act, hist, attempt, crashes>>

\* The request's context ends, or the timeout of the manager's Probe passes: the
\* store calls left to make fail, and the procedure returns.
Cut(a) ==
  /\ "cut" \in Events
  /\ a \in Checks \union {"login"} \/ (a = "manager" /\ lock # a)
  /\ act[a].pc \in {"exp_read", "exp_set", "exp_emit", "ok_read", "ok_set", "ok_emit"}
  /\ Return(a)
  /\ UNCHANGED <<gate, cred, mstate, hist, attempt, crashes>>

\* The process restarts: the row and the session survive, the rest does not,
\* and the manager probes once.
Booted == [a \in Actors |-> IF a = "manager" THEN [Idle EXCEPT !.pc = "probe"] ELSE Idle]

Restart ==
  /\ crashes < MaxCrashes
  /\ crashes' = crashes + 1
  /\ mstate' = "unknown"
  /\ lock' = "free"
  /\ act' = Booted
  /\ attempt' = "nil"
  /\ told' = "none" /\ warned' = TRUE
  /\ UNCHANGED <<gate, cred, usageTold>>

-----------------------------------------------------------------------------
\* A process starts, on whatever row an earlier one left.
Init ==
  /\ \E st \in {"ready", "blocked_auth", "blocked_usage", "paused"} : gate = To(st)
  /\ cred \in {"valid", "stale", "out"}
  /\ mstate = "unknown"
  /\ lock = "free"
  /\ act = Booted
  /\ attempt = "nil"
  /\ told = "none" /\ warned = TRUE /\ usageTold = (gate.st = "blocked_usage")
  /\ crashes = 0

Observe(a) == ObserveExpired(a) \/ ExpiredRead(a) \/ ExpiredSet(a) \/ ExpiredEmit(a)
Restore(a) == TransitionToOK(a) \/ OKRead(a) \/ OKSet(a) \/ OKEmit(a)
Executor == ReadGate \/ LiftUsageBlock \/ StartJob \/ JobEnds \/ BlockRead \/ BlockSet \/ BlockEmit
Keepalive(a) == KeepaliveOK(a) \/ KeepaliveFails(a)

Next ==
  \/ Tick \/ Executor \/ ManagerTick \/ Recheck
  \/ StartLogin \/ PublishLogin \/ FinishLogin \/ SessionChanges \/ Restart
  \/ \E a \in Actors : \/ Observe(a) \/ Restore(a) \/ Probe(a) \/ CheckAuth(a) \/ Acquire(a)
                       \/ Keepalive(a) \/ Cut(a)
                       \/ PauseExecutor(a) \/ ResumeRead(a) \/ ResumeSet(a)

Spec == Init /\ [][Next]_vars

-----------------------------------------------------------------------------
(* Properties *)

\* The row, the manager and every goroutine keep their types.
TypeOK ==
  /\ gate \in GateState
  /\ cred \in {"valid", "stale", "out"}
  /\ mstate \in {"unknown", "ok", "expired"}
  /\ lock \in Actors \union {"free"}
  /\ act \in [Actors -> ActState]
  /\ told \in {"none", "required", "restored"}
  /\ warned \in BOOLEAN /\ usageTold \in BOOLEAN
  /\ attempt \in {"nil", "live", "over"}
  /\ crashes \in Nat

\* No goroutine is in the middle of changing the gate.
Quiet == \A a \in Actors : act[a].pc \in {"idle", "pick", "job", "acquire", "login", "url", "late"}

\* Once the manager takes the session for expired, auth.required has been
\* enqueued since: no interleaving of observers and restorers lets the early
\* return of observeExpired swallow it.
ExpiryIsAnnounced == "cut" \notin Events /\ Quiet /\ mstate = "expired" => warned

\* Every goroutine keeps running, and time passes.  A keep-alive that is tried
\* again and again with a working session succeeds, a lock that is free again
\* and again is obtained, and not every tick falls into a login.
Fairness ==
  /\ WF_vars(Tick) /\ WF_vars(Executor) /\ SF_vars(ManagerTick) /\ WF_vars(Recheck)
  /\ WF_vars(FinishLogin)
  /\ \A a \in Actors : WF_vars(Observe(a)) /\ WF_vars(Restore(a)) /\ WF_vars(ResumeSet(a))
  /\ WF_vars(Probe("manager")) /\ WF_vars(Probe("login"))
  /\ \A a \in Keepers : SF_vars(Acquire(a)) /\ WF_vars(Keepalive(a))
  /\ SF_vars(KeepaliveOK("manager")) /\ SF_vars(Probe("manager") /\ mstate' = "ok")

FairSpec == Spec /\ Fairness

\* The gate never stays shut over a working session: not after a usage block,
\* an expiry repaired by any means, a request cut short, or a restart that
\* forgot why the row says blocked_auth.  It takes a keep-alive, so one must be
\* configured, and no attempt that is over may stay in Manager.attempt for ever.
GateReopens ==
  /\ KeepaliveOn
  /\ <>[](cred = "valid") /\ <>[](gate.st # "paused")
  /\ []<>(attempt = "nil")
  => []<>Runnable

-----------------------------------------------------------------------------
(* What comments in the code claim and the code does not do *)

\* "Resume deliberately does not clear a blocked_auth state": while the manager
\* holds the session for expired the gate is not open.
ExpiredMeansBlocked == Quiet /\ mstate = "expired" => ~Runnable

\* The usage notification "fires once per incident": a block that has not
\* reached its reset time has been announced.
UsageAnnounced ==
  Quiet /\ gate.st = "blocked_usage" /\ gate.until = "future" => usageTold

\* auth.required fires "once per incident, not once per failed check".
RequiredOncePerIncident ==
  [][\A a \in Actors : At(a, "exp_emit") /\ act'[a].pc = act[a].ret => told # "required"]_vars

\* transitionToOK "fires auth.restored exactly once".
RestoredOnce ==
  [][\A a \in Actors : At(a, "ok_emit") /\ act'[a].pc = "idle" => told # "restored"]_vars

\* A completed login will "unblock the executor and fire auth.restored".
LoginAnnouncesRestored ==
  [][At("login", "ok_read") /\ act'["login"].pc = "idle" => told # "required"]_vars

=============================================================================
