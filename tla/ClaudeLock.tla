----------------------------- MODULE ClaudeLock -----------------------------
(***************************************************************************)
(* internal/claudecli/lock.go.  sync.Mutex cannot be waited for under a    *)
(* context, so Acquire leaves the waiting to a goroutine; a caller whose   *)
(* context ends first walks away, and a second goroutine hands the mutex   *)
(* back should the first one win it later.  Login extends this module and  *)
(* uses the lock as its callers do.                                        *)
(***************************************************************************)
EXTENDS Naturals

CONSTANTS
  Procs,        \* callers: jobs, keep-alives, logins
  Nobody,       \* the mutex is free, or no holder is recorded
  Abandoned,    \* the mutex was won by a goroutine whose caller had left
  MaxAbandoned  \* bound: goroutines still waiting for callers who left

ASSUME LockAssumptions ==
  /\ MaxAbandoned \in Nat
  /\ Nobody \notin Procs /\ Abandoned \notin Procs /\ Nobody # Abandoned

VARIABLES
  mu,         \* the mutex: for whom it is locked
  pc,         \* each caller
  who,        \* the recorded holder
  abandoned   \* how many goroutines wait for callers who left

lockVars == <<mu, pc, who, abandoned>>

LockInit ==
  /\ mu = Nobody
  /\ pc = [p \in Procs |-> "out"]
  /\ who = Nobody
  /\ abandoned = 0

-----------------------------------------------------------------------------
\* Acquire starts its goroutine and waits for it or for the context.
Acquire(p) ==
  /\ pc[p] = "out"
  /\ pc' = [pc EXCEPT ![p] = "wait"]
  /\ UNCHANGED <<mu, who, abandoned>>

\* The goroutine's mu.Lock returns and it closes got.
Lock(p) ==
  /\ pc[p] = "wait" /\ mu = Nobody
  /\ mu' = p
  /\ UNCHANGED <<pc, who, abandoned>>

\* The caller receives from got.
Got(p) ==
  /\ pc[p] = "wait" /\ mu = p
  /\ pc' = [pc EXCEPT ![p] = "naming"]
  /\ UNCHANGED <<mu, who, abandoned>>

\* Mutant: the second goroutine is missing.
GiveUpAndLeak(p) ==
  /\ pc[p] = "wait"
  /\ pc' = [pc EXCEPT ![p] = "out"]
  /\ UNCHANGED <<mu, who, abandoned>>

\* ctx.Done is received instead; select may prefer it even if got is closed.
GiveUp(p) ==
  /\ pc[p] = "wait"
  /\ \/ mu = p /\ mu' = Abandoned /\ UNCHANGED abandoned
     \/ mu # p /\ abandoned < MaxAbandoned /\ abandoned' = abandoned + 1 /\ UNCHANGED mu
  /\ pc' = [pc EXCEPT ![p] = "out"]
  /\ UNCHANGED who

LockAbandoned ==
  /\ mu = Nobody /\ abandoned > 0
  /\ mu' = Abandoned
  /\ abandoned' = abandoned - 1
  /\ UNCHANGED <<pc, who>>

HandBack ==
  /\ mu = Abandoned
  /\ mu' = Nobody
  /\ UNCHANGED <<pc, who, abandoned>>

TryAcquire(p) ==
  /\ pc[p] = "out" /\ mu = Nobody
  /\ mu' = p
  /\ pc' = [pc EXCEPT ![p] = "naming"]
  /\ UNCHANGED <<who, abandoned>>

SetHolder(p) ==
  /\ pc[p] = "naming"
  /\ who' = p
  /\ pc' = [pc EXCEPT ![p] = "held"]
  /\ UNCHANGED <<mu, abandoned>>

\* Mutant: the mutex is unlocked before the holder is cleared.
ClearHolderLate(p) ==
  /\ pc[p] = "held"
  /\ mu' = Nobody
  /\ pc' = [pc EXCEPT ![p] = "unlock"]
  /\ UNCHANGED <<who, abandoned>>

\* release, the first call of it.
ClearHolder(p) ==
  /\ pc[p] = "held"
  /\ who' = Nobody
  /\ pc' = [pc EXCEPT ![p] = "unlock"]
  /\ UNCHANGED <<mu, abandoned>>

Unlock(p) ==
  /\ pc[p] = "unlock"
  /\ mu' = Nobody
  /\ pc' = [pc EXCEPT ![p] = "released"]
  /\ UNCHANGED <<who, abandoned>>

\* Mutant: release without sync.Once.
ReleaseTwice(p) ==
  /\ pc[p] = "released"
  /\ who' = Nobody
  /\ mu' = Nobody
  /\ pc' = [pc EXCEPT ![p] = "out"]
  /\ UNCHANGED abandoned

\* A second call of release does nothing, and the caller forgets it.
ReleaseAgain(p) ==
  /\ pc[p] = "released"
  /\ pc' = [pc EXCEPT ![p] = "out"]
  /\ UNCHANGED <<mu, who, abandoned>>

Release(p) == ClearHolder(p) \/ Unlock(p) \/ ReleaseAgain(p)
Wait(p) == Lock(p) \/ Got(p) \/ SetHolder(p)
Caller(p) == Acquire(p) \/ Wait(p) \/ GiveUp(p) \/ TryAcquire(p) \/ Release(p)

LockNext == LockAbandoned \/ HandBack \/ \E p \in Procs : Caller(p)

LockSpec == LockInit /\ [][LockNext]_lockVars

-----------------------------------------------------------------------------
(* Properties *)

LockTypeOK ==
  /\ mu \in Procs \union {Nobody, Abandoned}
  /\ pc \in [Procs -> {"out", "wait", "naming", "held", "unlock", "released"}]
  /\ who \in Procs \union {Nobody}
  /\ abandoned \in Nat

\* Holder never names a caller that does not have the lock: it is set after
\* locking and cleared before unlocking, whoever waits or walks away meanwhile.
HolderIsTrue == who # Nobody => pc[who] = "held" /\ mu = who

\* The lock implements the mutual exclusion its callers rely on.
Inside(p) == pc[p] \in {"naming", "held", "unlock"}
holderBar == IF \E p \in Procs : Inside(p) THEN CHOOSE p \in Procs : Inside(p) ELSE Nobody
M == INSTANCE Mutex WITH holder <- holderBar
Implements == M!Spec

\* "An abandoned wait cannot leak it": a caller that waits gets the lock or
\* leaves, however many others walked away from the queue before it.
WaitEnds == \A p \in Procs : pc[p] = "wait" ~> pc[p] # "wait"

=============================================================================
