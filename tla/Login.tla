------------------------------- MODULE Login -------------------------------
(***************************************************************************)
(* internal/auth/login.go: the interactive re-login.  An attempt is a      *)
(* `claude auth login` child under a PTY that holds the claude lock from   *)
(* StartLogin until finishAttempt.  Four goroutines may finish it: the     *)
(* StartLogin that waits for its URL, the TTL watcher, SubmitCode and      *)
(* CancelLogin.  Manager.attempt points at the attempt requests may use.   *)
(***************************************************************************)
EXTENDS ClaudeLock

CONSTANTS
  Starters,      \* POST /v1/auth/login requests, each of which may start a child
  Submitters,    \* concurrent POST /v1/auth/login/{attempt} requests
  None

\* The others who use claude are jobs and keep-alives.
ASSUME LoginAssumptions == Starters \subseteq Procs /\ None \notin Starters

Others == Procs \ Starters

VARIABLES
  attempt,   \* Manager.attempt: None, or the request that started the attempt
  a,         \* the attempt of each request: how far finishAttempt is, ttl over,
             \* child alive, what it printed
  start,     \* each StartLogin request
  submit     \* each SubmitCode request

loginVars == <<attempt, a, start, submit>>
vars == <<lockVars, loginVars>>

NoAttempt == [fin |-> "none", over |-> FALSE, alive |-> FALSE, said |-> "nothing"]
AttemptState == [fin : {"none", "live", "marked", "killed", "released", "cleared"}, over : BOOLEAN,
                 alive : BOOLEAN, said : {"nothing", "url", "success", "failure"}]

Finished(n) == a[n].fin \in {"marked", "killed", "released", "cleared"}
Expired(n) == Finished(n) \/ a[n].over

-----------------------------------------------------------------------------
(* finishAttempt: the flag under a.mu, the child, the lock, Manager.attempt *)

MarkFinished(n) == a' = [a EXCEPT ![n].fin = "marked"]

\* finishAttempt(n) called by anybody: the first call goes on, the others return.
Finish(n) == IF Finished(n) THEN UNCHANGED a ELSE MarkFinished(n)

\* Mutant: the child is left to end by itself.
KillNothing(n) ==
  /\ a[n].fin = "marked"
  /\ a' = [a EXCEPT ![n].fin = "killed"]
  /\ UNCHANGED <<lockVars, attempt, start, submit>>

\* cancel and Process.Kill: a SIGKILL sent counts as the child's end.
KillChild(n) ==
  /\ a[n].fin = "marked"
  /\ a' = [a EXCEPT ![n].fin = "killed", ![n].alive = FALSE]
  /\ UNCHANGED <<lockVars, attempt, start, submit>>

\* release: the holder is cleared, and Unlock follows.
ReleaseLock(n) ==
  /\ a[n].fin = "killed"
  /\ ClearHolder(n)
  /\ a' = [a EXCEPT ![n].fin = "released"]
  /\ UNCHANGED <<attempt, start, submit>>

ClearPointer(n) ==
  /\ a[n].fin = "released" /\ pc[n] = "released"
  /\ attempt' = IF attempt = n THEN None ELSE attempt
  /\ a' = [a EXCEPT ![n].fin = "cleared"]
  /\ UNCHANGED <<lockVars, start, submit>>

-----------------------------------------------------------------------------
(* StartLogin *)

StartAt(s, step) == start' = [start EXCEPT ![s] = step]

\* An attempt in flight is returned as it is.
StartExisting(s) ==
  /\ start[s] = "new"
  /\ attempt # None /\ ~Expired(attempt)
  /\ StartAt(s, "done")
  /\ UNCHANGED <<lockVars, attempt, a, submit>>

\* abandonStale, then lock.Acquire.
StartFresh(s) ==
  /\ start[s] = "new"
  /\ attempt # None => Expired(attempt)
  /\ IF attempt = None THEN UNCHANGED a ELSE Finish(attempt)
  /\ Acquire(s)
  /\ StartAt(s, "acquire")
  /\ UNCHANGED <<attempt, submit>>

\* The lock was not to be had in 5 s: ErrLoginBusy.
StartBusy(s) ==
  /\ start[s] = "acquire"
  /\ GiveUp(s)
  /\ StartAt(s, "done")
  /\ UNCHANGED <<attempt, a, submit>>

\* pty.Start: the child runs, or the lock is given back.
Spawn(s) ==
  /\ start[s] = "acquire" /\ pc[s] = "held"
  /\ \/ /\ a' = [a EXCEPT ![s] = [NoAttempt EXCEPT !.fin = "live", !.alive = TRUE]]
        /\ StartAt(s, "url")
        /\ UNCHANGED lockVars
     \/ ClearHolder(s) /\ StartAt(s, "done") /\ UNCHANGED a
  /\ UNCHANGED <<attempt, submit>>

\* awaitURL: the output holds a URL, or the child ended, the TTL or 30 s passed.
AwaitURL(s) ==
  /\ start[s] = "url"
  /\ \/ a[s].said = "url" /\ StartAt(s, "publish") /\ UNCHANGED a
     \/ Finish(s) /\ StartAt(s, "done")
  /\ UNCHANGED <<lockVars, attempt, submit>>

Publish(s) ==
  /\ start[s] = "publish"
  /\ attempt' = s
  /\ StartAt(s, "done")
  /\ UNCHANGED <<lockVars, a, submit>>

-----------------------------------------------------------------------------
(* SubmitCode, CancelLogin, the TTL *)

SubmitAt(c, step, n) == submit' = [submit EXCEPT ![c] = [at |-> step, n |-> n]]

\* The attempt named by the request is the current one; an expired one is
\* finished, and the code goes to the child of a live one.
SubmitCode(c) ==
  /\ submit[c].at = "idle"
  /\ attempt # None
  /\ IF Expired(attempt)
     THEN Finish(attempt) /\ UNCHANGED submit
     ELSE SubmitAt(c, "write", attempt) /\ UNCHANGED a
  /\ UNCHANGED <<lockVars, attempt, start>>

\* The PTY may have been closed meanwhile.
WriteCode(c) ==
  /\ submit[c].at = "write"
  /\ LET n == submit[c].n
     IN \/ /\ a[n].alive
           /\ \E r \in {"success", "failure"} :
                a' = [a EXCEPT ![n].said = IF @ = "url" THEN r ELSE @]
           /\ SubmitAt(c, "await", n)
        \/ /\ ~a[n].alive
           /\ Finish(n)
           /\ SubmitAt(c, "idle", None)
  /\ UNCHANGED <<lockVars, attempt, start>>

\* awaitResult, then finishAttempt, which may find that another goroutine is at
\* it already.  Only a confirmed login goes on; a failure, the client's departure
\* and 60 s all end it.
AwaitResult(c) ==
  /\ submit[c].at = "await"
  /\ LET n == submit[c].n
     IN /\ Finish(n)
        /\ \/ /\ a[n].said = "success"
              /\ SubmitAt(c, IF Finished(n) THEN "go_on" ELSE "finish", n)
           \/ SubmitAt(c, "idle", None)
  /\ UNCHANGED <<lockVars, attempt, start>>

\* finishAttempt has returned; login_completed is recorded, and Probe and
\* transitionToOK follow.
Complete(c) ==
  /\ \/ submit[c].at = "go_on"
     \/ submit[c].at = "finish" /\ a[submit[c].n].fin = "cleared"
  /\ SubmitAt(c, "idle", None)
  /\ UNCHANGED <<lockVars, attempt, a, start>>

CancelLogin ==
  /\ attempt # None
  /\ Finish(attempt)
  /\ UNCHANGED <<lockVars, attempt, start, submit>>

\* LoginAttemptTTL passes for a live attempt.
TTLPasses(n) ==
  /\ a[n].fin = "live" /\ ~a[n].over
  /\ a' = [a EXCEPT ![n].over = TRUE]
  /\ UNCHANGED <<lockVars, attempt, start, submit>>

\* Mutant: an attempt whose URL is out is left to the user who will submit the code.
WatcherUnpublished(n) ==
  /\ a[n].fin = "live" /\ a[n].over /\ attempt # n
  /\ MarkFinished(n)
  /\ UNCHANGED <<lockVars, attempt, start, submit>>

\* runCtx.Done: the watcher finishes the attempt.
Watcher(n) ==
  /\ a[n].fin = "live" /\ a[n].over
  /\ MarkFinished(n)
  /\ UNCHANGED <<lockVars, attempt, start, submit>>

\* The child prints its URL, or dies by itself.
Child(n) ==
  /\ a[n].alive
  /\ \/ a[n].said = "nothing" /\ a' = [a EXCEPT ![n].said = "url"]
     \/ a' = [a EXCEPT ![n].alive = FALSE]
  /\ UNCHANGED <<lockVars, attempt, start, submit>>

\* Goroutines of the lock, its other callers, and the waits of the starters.
LockStep ==
  /\ \/ LockAbandoned \/ HandBack
     \/ \E p \in Others : Caller(p)
     \/ \E s \in Starters : Wait(s) \/ Unlock(s)
  /\ UNCHANGED loginVars

-----------------------------------------------------------------------------
Init ==
  /\ LockInit
  /\ attempt = None
  /\ a = [n \in Starters |-> NoAttempt]
  /\ start = [s \in Starters |-> "new"]
  /\ submit = [c \in Submitters |-> [at |-> "idle", n |-> None]]

Starter(s) == StartExisting(s) \/ StartFresh(s) \/ StartBusy(s) \/ Spawn(s) \/ AwaitURL(s)
              \/ Publish(s)
Submitter(c) == WriteCode(c) \/ AwaitResult(c) \/ Complete(c)
Teardown(n) == KillChild(n) \/ ReleaseLock(n) \/ ClearPointer(n) \/ TTLPasses(n) \/ Watcher(n)

Next ==
  \/ CancelLogin \/ LockStep
  \/ \E s \in Starters : Starter(s)
  \/ \E c \in Submitters : SubmitCode(c) \/ Submitter(c)
  \/ \E n \in Starters : Teardown(n) \/ Child(n)

Spec == Init /\ [][Next]_vars

Alone(A) == A /\ UNCHANGED loginVars

\* Goroutines run, time passes, the other users of claude finish, and
\* sync.Mutex starves nobody.
Fairness ==
  /\ \A s \in Starters : /\ WF_vars(StartExisting(s) \/ StartFresh(s) \/ Spawn(s))
                         /\ WF_vars(AwaitURL(s) \/ Publish(s)) /\ WF_vars(Teardown(s))
  /\ \A c \in Submitters : WF_vars(Submitter(c))
  /\ WF_vars(Alone(HandBack)) /\ SF_vars(Alone(LockAbandoned))
  /\ \A p \in Procs : /\ SF_vars(Alone(Lock(p)))
                      /\ WF_vars(Alone(Got(p) \/ SetHolder(p) \/ Unlock(p)))
  /\ \A p \in Others : WF_vars(Alone(Release(p)))

FairSpec == Spec /\ Fairness

-----------------------------------------------------------------------------
(* Properties *)

TypeOK ==
  /\ LockTypeOK
  /\ attempt \in Starters \union {None}
  /\ a \in [Starters -> AttemptState]
  /\ start \in [Starters -> {"new", "acquire", "url", "publish", "done"}]
  /\ submit \in [Submitters -> [at : {"idle", "write", "await", "finish", "go_on"},
                                n : Starters \union {None}]]

\* No other claude process runs beside a login child: an attempt's child lives
\* only while its request holds the lock, whoever finishes it and when.
ChildHoldsLock == \A n \in Starters : a[n].alive => pc[n] = "held" /\ mu = n

\* An attempt always gives the lock back, published or not, even if the phone
\* that started it never returns (finishAttempt, "always releasing the lock").
AttemptEnds == \A n \in Starters : a[n].fin # "none" ~> pc[n] = "released"

-----------------------------------------------------------------------------
(* What comments in the code claim and the code does not do *)

\* "The login process must be gone before anything else runs claude": SubmitCode
\* goes on to Probe only once the child is dead.
ChildGoneBeforeProbe ==
  [][\A c \in Submitters : Complete(c) => ~a[submit[c].n].alive]_vars

\* A login in progress "holds the lock anyway": Manager.attempt does not stay on
\* an attempt whose teardown is over.
PointerIsLive == attempt # None => a[attempt].fin # "cleared"

=============================================================================
