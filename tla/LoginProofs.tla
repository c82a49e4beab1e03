---------------------------- MODULE LoginProofs ----------------------------
(***************************************************************************)
(* Proofs about ClaudeLock and Login, for any number of callers of the     *)
(* lock, of login requests and of code submissions.                        *)
(***************************************************************************)
EXTENDS Login, TLAPS

\* A caller past its Acquire has the mutex, and the recorded holder is a caller
\* that has not called release.
LockInv ==
  /\ LockTypeOK
  /\ \A p \in Procs : Inside(p) => mu = p
  /\ who # Nobody => pc[who] = "held"

\* An attempt that somebody can name has a child, and its request keeps the lock
\* until finishAttempt has killed it.
AttemptInv ==
  /\ \A n \in Starters :
       /\ a[n].alive => a[n].fin \in {"live", "marked"}
       /\ a[n].fin \in {"live", "marked", "killed"} => pc[n] = "held"
       /\ a[n].fin = "released" => pc[n] \in {"unlock", "released"}
       /\ start[n] \in {"new", "acquire"} => a[n].fin = "none"
       /\ start[n] \in {"url", "publish"} => a[n].fin # "none"
  /\ attempt # None => a[attempt].fin # "none"
  /\ \A c \in Submitters :
       submit[c].at # "idle" => submit[c].n \in Starters /\ a[submit[c].n].fin # "none"

LoginTypes ==
  /\ attempt \in Starters \union {None}
  /\ a \in [Starters -> AttemptState]
  /\ start \in [Starters -> {"new", "acquire", "url", "publish", "done"}]
  /\ submit \in [Submitters -> [at : {"idle", "write", "await", "finish", "go_on"},
                                n : Starters \union {None}]]

LoginInv == LockInv /\ LoginTypes /\ AttemptInv

-----------------------------------------------------------------------------
(* The lock *)

\* Nobody is inside while the mutex is not a caller's.
LEMMA NobodyInside ==
  ASSUME LockInv, mu \notin Procs
  PROVE  \A p \in Procs : ~Inside(p)
BY DEF LockInv

\* Every step of the lock keeps its invariant.
LEMMA LockStepInv ==
  ASSUME LockInv, [LockNext]_lockVars
  PROVE  LockInv'
<1> USE LockAssumptions DEF LockInv, LockTypeOK, Inside
<1>1. CASE LockAbandoned
  BY <1>1 DEF LockAbandoned
<1>2. CASE HandBack
  BY <1>2 DEF HandBack
<1>3. ASSUME NEW p \in Procs, Acquire(p) PROVE LockInv'
  BY <1>3 DEF Acquire
<1>4. ASSUME NEW p \in Procs, Lock(p) PROVE LockInv'
  BY <1>4 DEF Lock
<1>5. ASSUME NEW p \in Procs, Got(p) PROVE LockInv'
  BY <1>5 DEF Got
<1>6. ASSUME NEW p \in Procs, GiveUp(p) PROVE LockInv'
  BY <1>6 DEF GiveUp
<1>7. ASSUME NEW p \in Procs, TryAcquire(p) PROVE LockInv'
  BY <1>7 DEF TryAcquire
<1>8. ASSUME NEW p \in Procs, SetHolder(p) PROVE LockInv'
  BY <1>8 DEF SetHolder
<1>9. ASSUME NEW p \in Procs, ClearHolder(p) PROVE LockInv'
  BY <1>9 DEF ClearHolder
<1>10. ASSUME NEW p \in Procs, Unlock(p) PROVE LockInv'
  BY <1>10 DEF Unlock
<1>11. ASSUME NEW p \in Procs, ReleaseAgain(p) PROVE LockInv'
  BY <1>11 DEF ReleaseAgain
<1>12. CASE UNCHANGED lockVars
  BY <1>12 DEF lockVars
<1> QED
  BY <1>1, <1>2, <1>3, <1>4, <1>5, <1>6, <1>7, <1>8, <1>9, <1>10, <1>11, <1>12
     DEF LockNext, Caller, Wait, Release

\* The lock's invariant, for whatever callers use it.
LEMMA LockInvariance == LockSpec => []LockInv
<1>1. LockInit => LockInv
  BY LockAssumptions DEF LockInit, LockInv, LockTypeOK, Inside
<1> QED BY <1>1, LockStepInv, PTL DEF LockSpec

\* What the mutual exclusion's holder is, for given control states.
Bar(f) == IF \E p \in Procs : f[p] \in {"naming", "held", "unlock"}
          THEN CHOOSE p \in Procs : f[p] \in {"naming", "held", "unlock"} ELSE Nobody

\* The mapping follows from the control states alone.
LEMMA HolderBar == holderBar = Bar(pc) /\ holderBar' = Bar(pc')
BY DEF holderBar, Bar, Inside

\* The mapped holder is the caller inside, if there is one.
LEMMA BarIs ==
  ASSUME NEW f, NEW m, \A q \in Procs : f[q] \in {"naming", "held", "unlock"} => q = m
  PROVE  /\ \A q \in Procs : f[q] \in {"naming", "held", "unlock"} => Bar(f) = q
         /\ (\A q \in Procs : f[q] \notin {"naming", "held", "unlock"}) => Bar(f) = Nobody
BY DEF Bar

\* Every step of the lock is a step of the mutual exclusion, or none.
LEMMA LockSimulation ==
  ASSUME LockInv, LockInv', [LockNext]_lockVars
  PROVE  [M!Next]_holderBar
<1> DEFINE In == {"naming", "held", "unlock"}
<1>0. /\ \A q \in Procs : pc[q] \in In => q = mu
      /\ \A q \in Procs : pc'[q] \in In => q = mu'
      /\ pc \in [Procs -> {"out", "wait", "naming", "held", "unlock", "released"}]
  BY DEF LockInv, LockTypeOK, Inside
<1>1. /\ \A q \in Procs : pc[q] \in In => Bar(pc) = q
      /\ (\A q \in Procs : pc[q] \notin In) => Bar(pc) = Nobody
  BY <1>0, BarIs
<1>2. /\ \A q \in Procs : pc'[q] \in In => Bar(pc') = q
      /\ (\A q \in Procs : pc'[q] \notin In) => Bar(pc') = Nobody
  BY <1>0, BarIs
<1>3. ASSUME \A q \in Procs : pc'[q] \in In <=> pc[q] \in In PROVE Bar(pc') = Bar(pc)
  BY <1>1, <1>2, <1>3
<1>4. ASSUME NEW p \in Procs, Got(p) \/ TryAcquire(p)
      PROVE  Bar(pc) = Nobody /\ Bar(pc') = p
  <2>1. (\A q \in Procs : pc[q] \notin In) /\ pc'[p] \in In
    BY <1>0, <1>4, LockAssumptions DEF Got, TryAcquire
  <2> QED BY <1>1, <1>2, <2>1
<1>5. ASSUME NEW p \in Procs, Unlock(p)
      PROVE  Bar(pc) = p /\ Bar(pc') = Nobody
  <2>1. pc[p] \in In /\ \A q \in Procs : pc'[q] \notin In
    BY <1>0, <1>5, LockAssumptions DEF Unlock
  <2> QED BY <1>1, <1>2, <2>1
<1>6. ASSUME LockAbandoned \/ HandBack \/ UNCHANGED lockVars PROVE Bar(pc') = Bar(pc)
  BY <1>3, <1>6 DEF LockAbandoned, HandBack, lockVars
<1>7. ASSUME NEW p \in Procs,
             Acquire(p) \/ Lock(p) \/ GiveUp(p) \/ SetHolder(p) \/ ClearHolder(p) \/ ReleaseAgain(p)
      PROVE  Bar(pc') = Bar(pc)
  <2>1. \A q \in Procs : pc'[q] \in In <=> pc[q] \in In
    BY <1>0, <1>7 DEF Acquire, Lock, GiveUp, SetHolder, ClearHolder, ReleaseAgain
  <2> QED BY <1>3, <2>1
<1>8. Bar(pc') = Bar(pc) \/ \E p \in Procs : \/ Bar(pc) = Nobody /\ Bar(pc') = p
                                             \/ Bar(pc) = p /\ Bar(pc') = Nobody
  BY <1>4, <1>5, <1>6, <1>7 DEF LockNext, Caller, Wait, Release
<1> QED BY <1>8, HolderBar DEF M!Next, M!Acquire, M!Release

\* ClaudeLock implements Mutex: however callers wait, walk away and release
\* twice, the lock goes from nobody to one caller and back, one holder at a time.
THEOREM LockIsMutex == LockSpec => Implements
<1>1. LockInit => M!Init
  <2>1. ASSUME LockInit PROVE \A p \in Procs : ~Inside(p)
    BY <2>1 DEF LockInit, Inside
  <2> QED BY <2>1 DEF M!Init, holderBar
<1>2. LockInv /\ LockInv' /\ [LockNext]_lockVars => [M!Next]_holderBar
  BY LockSimulation
<1> QED BY <1>1, <1>2, LockInvariance, PTL DEF LockSpec, Implements, M!Spec

\* The recorded holder always has the lock.
THEOREM HolderNamesTheHolder == LockSpec => []HolderIsTrue
<1>1. LockInv => HolderIsTrue
  BY DEF LockInv, LockTypeOK, HolderIsTrue, Inside
<1> QED BY <1>1, LockInvariance, PTL

-----------------------------------------------------------------------------
(* The login *)

\* A request uses the lock as any caller does: each of its steps is a step of
\* the lock, or none.
LEMMA LoginUsesLock == [Next]_vars => [LockNext]_lockVars
<1> SUFFICES ASSUME [Next]_vars PROVE LockNext \/ UNCHANGED lockVars
  OBVIOUS
<1>0. \A s \in Starters : s \in Procs
  BY LoginAssumptions
<1>1. CASE CancelLogin
  BY <1>1 DEF CancelLogin
<1>2. CASE LockStep
  BY <1>0, <1>2 DEF LockStep, LockNext, Caller, Release, Others
<1>3. ASSUME NEW s \in Starters, Starter(s) PROVE LockNext \/ UNCHANGED lockVars
  <2>1. CASE StartExisting(s) \/ AwaitURL(s) \/ Publish(s)
    BY <2>1 DEF StartExisting, AwaitURL, Publish
  <2>2. CASE StartFresh(s) \/ StartBusy(s)
    BY <1>0, <2>2 DEF StartFresh, StartBusy, LockNext, Caller
  <2>3. CASE Spawn(s)
    BY <1>0, <2>3 DEF Spawn, LockNext, Caller, Release
  <2> QED BY <1>3, <2>1, <2>2, <2>3 DEF Starter
<1>4. ASSUME NEW c \in Submitters, SubmitCode(c) \/ Submitter(c)
      PROVE  UNCHANGED lockVars
  BY <1>4 DEF SubmitCode, Submitter, WriteCode, AwaitResult, Complete
<1>5. ASSUME NEW n \in Starters, Teardown(n) \/ Child(n) PROVE LockNext \/ UNCHANGED lockVars
  <2>1. CASE ReleaseLock(n)
    BY <1>0, <2>1 DEF ReleaseLock, LockNext, Caller, Release
  <2>2. CASE KillChild(n) \/ ClearPointer(n) \/ TTLPasses(n) \/ Watcher(n) \/ Child(n)
    BY <2>2 DEF KillChild, ClearPointer, TTLPasses, Watcher, Child
  <2> QED BY <1>5, <2>1, <2>2 DEF Teardown
<1>6. CASE UNCHANGED vars
  BY <1>6 DEF vars
<1> QED BY <1>1, <1>2, <1>3, <1>4, <1>5, <1>6 DEF Next

\* The login implements a caller of the lock.
THEOREM LoginIsACaller == Spec => LockSpec
BY LoginUsesLock, PTL DEF Spec, Init, LockSpec

\* finishAttempt marks one attempt at most, and kills nobody yet.
LEMMA FinishMarks ==
  ASSUME LoginTypes, NEW n \in Starters, Finish(n)
  PROVE  /\ a' \in [Starters -> AttemptState]
         /\ \A m \in Starters : a'[m].alive = a[m].alive /\ a'[m].said = a[m].said
         /\ \A m \in Starters : \/ a'[m].fin = a[m].fin
                                \/ m = n /\ a[m].fin \in {"none", "live"} /\ a'[m].fin = "marked"
<1>1. CASE UNCHANGED a
  BY <1>1 DEF LoginTypes
<1>2. CASE ~Finished(n) /\ a' = [a EXCEPT ![n].fin = "marked"]
  <2>1. a[n].fin \in {"none", "live"}
    BY <1>2 DEF Finished, LoginTypes, AttemptState
  <2> QED BY <1>2, <2>1 DEF LoginTypes, AttemptState
<1> QED BY <1>1, <1>2 DEF Finish, MarkFinished

\* A step that only finishes an attempt somebody can name keeps the invariant.
LEMMA FinishInv ==
  ASSUME LoginInv, NEW n \in Starters, a[n].fin # "none", Finish(n),
         UNCHANGED <<lockVars, attempt>>,
         start' \in [Starters -> {"new", "acquire", "url", "publish", "done"}],
         \A s \in Starters : start'[s] \in {start[s], "done"},
         submit' \in [Submitters -> [at : {"idle", "write", "await", "finish", "go_on"},
                                     n : Starters \union {None}]],
         \A c \in Submitters : \/ submit'[c].at = "idle" \/ submit'[c] = submit[c]
                               \/ submit[c].at # "idle" /\ submit'[c].n = submit[c].n
  PROVE  LoginTypes' /\ AttemptInv'
<1>1. /\ a' \in [Starters -> AttemptState]
      /\ \A m \in Starters : a'[m].alive = a[m].alive
      /\ \A m \in Starters : \/ a'[m].fin = a[m].fin
                             \/ m = n /\ a[m].fin = "live" /\ a'[m].fin = "marked"
  BY FinishMarks DEF LoginInv
<1>2. LoginTypes'
  BY <1>1 DEF LoginInv, LoginTypes
<1>3. \A m \in Starters : a[m].fin # "none" => a'[m].fin # "none"
  BY <1>1
<1>4. AttemptInv'
  <2>1. \A m \in Starters : /\ a'[m].alive => a'[m].fin \in {"live", "marked"}
                            /\ a'[m].fin \in {"live", "marked", "killed"} => pc'[m] = "held"
                            /\ a'[m].fin = "released" => pc'[m] \in {"unlock", "released"}
                            /\ start'[m] \in {"new", "acquire"} => a'[m].fin = "none"
                            /\ start'[m] \in {"url", "publish"} => a'[m].fin # "none"
    BY <1>1 DEF LoginInv, AttemptInv, lockVars
  <2>2. attempt' # None => a'[attempt'].fin # "none"
    BY <1>3 DEF LoginInv, AttemptInv, LoginTypes
  <2>3. \A c \in Submitters : submit'[c].at # "idle" =>
            submit'[c].n \in Starters /\ a'[submit'[c].n].fin # "none"
    BY <1>3 DEF LoginInv, AttemptInv
  <2> QED BY <2>1, <2>2, <2>3 DEF AttemptInv
<1> QED BY <1>2, <1>4

\* What the lock does meanwhile cannot end a request's hold of it.
LEMMA LockStepAttempt ==
  ASSUME LoginInv, LockStep
  PROVE  LoginTypes' /\ AttemptInv'
<1>1. UNCHANGED <<attempt, a, start, submit>>
  BY DEF LockStep, loginVars
<1>2. \A n \in Starters : /\ pc[n] = "held" => pc'[n] = "held"
                          /\ pc[n] \in {"unlock", "released"} => pc'[n] \in {"unlock", "released"}
  <2>1. CASE LockAbandoned \/ HandBack
    BY <2>1 DEF LockAbandoned, HandBack
  <2>2. ASSUME NEW p \in Others, Caller(p) PROVE \A n \in Starters : pc'[n] = pc[n]
    BY <2>2, LoginAssumptions DEF LoginInv, LockInv, LockTypeOK, Others, Caller, Wait, Release, Acquire, Lock, Got,
         GiveUp, TryAcquire, SetHolder, ClearHolder, Unlock, ReleaseAgain
  <2>3. ASSUME NEW s \in Starters, Wait(s) \/ Unlock(s)
        PROVE  \A n \in Starters : \/ pc'[n] = pc[n]
                                   \/ pc[n] \in {"wait", "naming"}
                                   \/ pc[n] = "unlock" /\ pc'[n] = "released"
    BY <2>3, LoginAssumptions DEF LoginInv, LockInv, LockTypeOK, Wait, Lock, Got, SetHolder, Unlock
  <2> QED BY <2>1, <2>2, <2>3 DEF LockStep
<1> QED BY <1>1, <1>2 DEF LoginInv, LoginTypes, AttemptInv

\* Every step of a StartLogin request keeps the invariant.
LEMMA StarterInv ==
  ASSUME LoginInv, NEW s \in Starters, Starter(s)
  PROVE  LoginTypes' /\ AttemptInv'
<1> USE DEF LoginInv, LoginTypes, AttemptInv
<1>0. s \in Procs /\ pc \in [Procs -> {"out", "wait", "naming", "held", "unlock", "released"}]
  BY LoginAssumptions DEF LockInv, LockTypeOK
<1>1. CASE StartExisting(s)
  BY <1>1 DEF StartExisting, StartAt, lockVars
<1>2. CASE StartFresh(s)
  <2>1. /\ a' \in [Starters -> AttemptState]
        /\ \A m \in Starters : a'[m].alive = a[m].alive
        /\ \A m \in Starters : \/ a'[m].fin = a[m].fin
                               \/ a[m].fin = "live" /\ a'[m].fin = "marked"
    <3>1. CASE attempt = None
      BY <1>2, <3>1 DEF StartFresh
    <3>2. CASE attempt # None
      BY <1>2, <3>2, FinishMarks DEF StartFresh
    <3> QED BY <3>1, <3>2
  <2>2. \A n \in Starters : pc[n] \in {"held", "unlock", "released"} => pc'[n] = pc[n]
    BY <1>0, <1>2, LoginAssumptions DEF StartFresh, Acquire
  <2>3. start[s] = "new" /\ start' = [start EXCEPT ![s] = "acquire"] /\ UNCHANGED <<attempt, submit>>
    BY <1>2 DEF StartFresh, StartAt
  <2>4. \A m \in Starters : a[m].fin # "none" <=> a'[m].fin # "none"
    BY <2>1
  <2> QED BY <2>1, <2>2, <2>3, <2>4
<1>3. CASE StartBusy(s)
  <2>1. \A n \in Starters : pc[n] \in {"held", "unlock", "released"} => pc'[n] = pc[n]
    BY <1>0, <1>3, LoginAssumptions DEF StartBusy, GiveUp
  <2> QED BY <1>3, <2>1 DEF StartBusy, StartAt
<1>4. CASE Spawn(s)
  <2>1. CASE ClearHolder(s) /\ StartAt(s, "done") /\ UNCHANGED a
    <3>1. \A n \in Starters : n # s => pc'[n] = pc[n]
      BY <1>0, <2>1, LoginAssumptions DEF ClearHolder
    <3> QED BY <1>4, <2>1, <3>1 DEF Spawn, StartAt
  <2>2. CASE a' = [a EXCEPT ![s] = [NoAttempt EXCEPT !.fin = "live", !.alive = TRUE]]
             /\ StartAt(s, "url") /\ UNCHANGED lockVars
    <3>1. [NoAttempt EXCEPT !.fin = "live", !.alive = TRUE] \in AttemptState
          /\ [NoAttempt EXCEPT !.fin = "live", !.alive = TRUE].fin = "live"
      BY DEF NoAttempt, AttemptState
    <3> QED BY <1>4, <2>2, <3>1 DEF Spawn, StartAt, lockVars
  <2> QED BY <1>4, <2>1, <2>2 DEF Spawn
<1>5. CASE AwaitURL(s)
  <2>1. CASE UNCHANGED a
    BY <1>5, <2>1 DEF AwaitURL, StartAt, lockVars
  <2>2. CASE Finish(s) /\ StartAt(s, "done")
    <3>1. /\ start' \in [Starters -> {"new", "acquire", "url", "publish", "done"}]
          /\ \A n \in Starters : start'[n] \in {start[n], "done"}
          /\ submit' \in [Submitters -> [at : {"idle", "write", "await", "finish", "go_on"},
                                       n : Starters \union {None}]]
          /\ a[s].fin # "none" /\ UNCHANGED <<lockVars, attempt, submit>>
      BY <1>5, <2>2 DEF AwaitURL, StartAt
    <3> HIDE DEF LoginInv, AttemptInv
    <3> QED BY <2>2, <3>1, FinishInv
  <2> QED BY <1>5, <2>1, <2>2 DEF AwaitURL
<1>6. CASE Publish(s)
  BY <1>6 DEF Publish, StartAt, lockVars
<1> QED BY <1>1, <1>2, <1>3, <1>4, <1>5, <1>6 DEF Starter

\* Every step of a SubmitCode request keeps the invariant.
LEMMA SubmitterInv ==
  ASSUME LoginInv, NEW c \in Submitters, SubmitCode(c) \/ Submitter(c)
  PROVE  LoginTypes' /\ AttemptInv'
<1>1. CASE SubmitCode(c)
  <2>1. attempt \in Starters /\ a[attempt].fin # "none"
    BY <1>1 DEF SubmitCode, LoginInv, LoginTypes, AttemptInv
  <2>2. CASE Expired(attempt)
    BY <1>1, <2>1, <2>2, FinishInv DEF SubmitCode, LoginInv, LoginTypes
  <2>3. CASE ~Expired(attempt)
    BY <1>1, <2>1, <2>3 DEF SubmitCode, SubmitAt, LoginInv, LoginTypes, AttemptInv, lockVars
  <2> QED BY <2>2, <2>3
<1>2. CASE WriteCode(c)
  <2>1. submit[c].n \in Starters /\ a[submit[c].n].fin # "none"
    BY <1>2 DEF WriteCode, LoginInv, AttemptInv
  <2>2. ASSUME NEW r \in {"success", "failure"}, SubmitAt(c, "await", submit[c].n),
               a' = [a EXCEPT ![submit[c].n].said = IF @ = "url" THEN r ELSE @]
        PROVE  LoginTypes' /\ AttemptInv'
    <3>1. a' \in [Starters -> AttemptState]
          /\ \A m \in Starters : a'[m].alive = a[m].alive /\ a'[m].fin = a[m].fin
      BY <2>1, <2>2 DEF LoginInv, LoginTypes, AttemptState
    <3> QED BY <1>2, <2>1, <2>2, <3>1 DEF WriteCode, SubmitAt, LoginInv, LoginTypes, AttemptInv, lockVars
  <2>3. CASE Finish(submit[c].n) /\ SubmitAt(c, "idle", None)
    BY <1>2, <2>1, <2>3, FinishInv DEF WriteCode, SubmitAt, LoginInv, LoginTypes
  <2> QED BY <1>2, <2>2, <2>3 DEF WriteCode
<1>3. CASE AwaitResult(c)
  <2>1. submit[c].n \in Starters /\ a[submit[c].n].fin # "none"
    BY <1>3 DEF AwaitResult, LoginInv, AttemptInv
  <2>2. \/ \E at \in {"go_on", "finish"} : SubmitAt(c, at, submit[c].n)
        \/ SubmitAt(c, "idle", None)
    BY <1>3 DEF AwaitResult
  <2>3. /\ submit' \in [Submitters -> [at : {"idle", "write", "await", "finish", "go_on"},
                                     n : Starters \union {None}]]
        /\ \A d \in Submitters : \/ submit'[d].at = "idle" \/ submit'[d] = submit[d]
                                 \/ submit[d].at # "idle" /\ submit'[d].n = submit[d].n
    BY <1>3, <2>1, <2>2 DEF AwaitResult, SubmitAt, LoginInv, LoginTypes
  <2>4. start' \in [Starters -> {"new", "acquire", "url", "publish", "done"}]
    BY <1>3 DEF AwaitResult, LoginInv, LoginTypes
  <2> QED BY <1>3, <2>1, <2>3, <2>4, FinishInv DEF AwaitResult
<1>4. CASE Complete(c)
  BY <1>4 DEF Complete, SubmitAt, LoginInv, LoginTypes, AttemptInv, lockVars
<1> QED BY <1>1, <1>2, <1>3, <1>4 DEF Submitter

\* What writing a field of an attempt does to the fields the invariant is about.
LEMMA AttemptField ==
  ASSUME NEW r \in AttemptState
  PROVE  /\ \A f \in {"marked", "killed", "released", "cleared"} :
              [r EXCEPT !.fin = f] \in AttemptState /\ [r EXCEPT !.fin = f].fin = f
              /\ [r EXCEPT !.fin = f].alive = r.alive
         /\ [r EXCEPT !.over = TRUE] \in AttemptState /\ [r EXCEPT !.over = TRUE].fin = r.fin
         /\ [r EXCEPT !.over = TRUE].alive = r.alive
         /\ [r EXCEPT !.alive = FALSE] \in AttemptState /\ [r EXCEPT !.alive = FALSE].fin = r.fin
         /\ ~[r EXCEPT !.alive = FALSE].alive
         /\ [r EXCEPT !.fin = "killed", !.alive = FALSE] \in AttemptState
         /\ [r EXCEPT !.fin = "killed", !.alive = FALSE].fin = "killed"
         /\ ~[r EXCEPT !.fin = "killed", !.alive = FALSE].alive
<1>1. \A f \in {"marked", "killed", "released", "cleared"} :
        [r EXCEPT !.fin = f] \in AttemptState /\ [r EXCEPT !.fin = f].fin = f
        /\ [r EXCEPT !.fin = f].alive = r.alive
  BY DEF AttemptState
<1>2. /\ [r EXCEPT !.over = TRUE] \in AttemptState /\ [r EXCEPT !.over = TRUE].fin = r.fin
      /\ [r EXCEPT !.over = TRUE].alive = r.alive
  BY DEF AttemptState
<1>3. /\ [r EXCEPT !.alive = FALSE] \in AttemptState /\ [r EXCEPT !.alive = FALSE].fin = r.fin
      /\ ~[r EXCEPT !.alive = FALSE].alive
  BY DEF AttemptState
<1>4. /\ [r EXCEPT !.fin = "killed", !.alive = FALSE] \in AttemptState
      /\ [r EXCEPT !.fin = "killed", !.alive = FALSE].fin = "killed"
      /\ ~[r EXCEPT !.fin = "killed", !.alive = FALSE].alive
  BY DEF AttemptState
<1> QED BY <1>1, <1>2, <1>3, <1>4

\* KillChild writes its attempt only.
LEMMA KillWrite ==
  ASSUME LoginTypes, NEW n \in Starters, a' = [a EXCEPT ![n].fin = "killed", ![n].alive = FALSE]
  PROVE  /\ a' \in [Starters -> AttemptState]
         /\ \A m \in Starters : m # n => a'[m] = a[m]
         /\ a'[n].fin = "killed" /\ ~a'[n].alive
<1>1. a[n] \in AttemptState
  BY DEF LoginTypes
<1>2. [a[n] EXCEPT !.fin = "killed", !.alive = FALSE] \in AttemptState
      /\ [a[n] EXCEPT !.fin = "killed", !.alive = FALSE].fin = "killed"
      /\ ~[a[n] EXCEPT !.fin = "killed", !.alive = FALSE].alive
  BY <1>1, AttemptField
<1>3. PICK r \in AttemptState : a' = [a EXCEPT ![n] = r] /\ r = [a[n] EXCEPT !.fin = "killed", !.alive = FALSE]
  BY <1>2, Zenon
<1> QED BY <1>2, <1>3 DEF LoginTypes

\* So does the passing TTL, which leaves the fields the invariant is about.
LEMMA OverWrite ==
  ASSUME LoginTypes, NEW n \in Starters, a' = [a EXCEPT ![n].over = TRUE]
  PROVE  /\ a' \in [Starters -> AttemptState]
         /\ \A m \in Starters : m # n => a'[m] = a[m]
         /\ a'[n].fin = a[n].fin /\ a'[n].alive = a[n].alive
<1>1. a[n] \in AttemptState
  BY DEF LoginTypes
<1>2. [a[n] EXCEPT !.over = TRUE] \in AttemptState
      /\ [a[n] EXCEPT !.over = TRUE].fin = a[n].fin
      /\ [a[n] EXCEPT !.over = TRUE].alive = a[n].alive
  BY <1>1, AttemptField
<1>3. PICK r \in AttemptState : a' = [a EXCEPT ![n] = r] /\ r = [a[n] EXCEPT !.over = TRUE]
  BY <1>2, Zenon
<1> QED BY <1>2, <1>3 DEF LoginTypes

\* So does each write of how far finishAttempt is.
LEMMA FinWrite ==
  ASSUME LoginTypes, NEW n \in Starters,
         NEW f \in {"marked", "released", "cleared"}, a' = [a EXCEPT ![n].fin = f]
  PROVE  /\ a' \in [Starters -> AttemptState]
         /\ \A m \in Starters : m # n => a'[m] = a[m]
         /\ a'[n].fin = f /\ a'[n].alive = a[n].alive
<1>1. a[n] \in AttemptState
  BY DEF LoginTypes
<1>2. [a[n] EXCEPT !.fin = f] \in AttemptState
      /\ [a[n] EXCEPT !.fin = f].fin = f
      /\ [a[n] EXCEPT !.fin = f].alive = a[n].alive
  BY <1>1 DEF AttemptState
<1>3. PICK r \in AttemptState : a' = [a EXCEPT ![n] = r] /\ r = [a[n] EXCEPT !.fin = f]
  BY <1>2, Zenon
<1> QED BY <1>2, <1>3 DEF LoginTypes

\* So does the end of the child.
LEMMA DeadWrite ==
  ASSUME LoginTypes, NEW n \in Starters, a' = [a EXCEPT ![n].alive = FALSE]
  PROVE  /\ a' \in [Starters -> AttemptState]
         /\ \A m \in Starters : m # n => a'[m] = a[m]
         /\ a'[n].fin = a[n].fin /\ ~a'[n].alive
<1>1. a[n] \in AttemptState
  BY DEF LoginTypes
<1>2. [a[n] EXCEPT !.alive = FALSE] \in AttemptState
      /\ [a[n] EXCEPT !.alive = FALSE].fin = a[n].fin
      /\ ~[a[n] EXCEPT !.alive = FALSE].alive
  BY <1>1, AttemptField
<1>3. PICK r \in AttemptState : a' = [a EXCEPT ![n] = r] /\ r = [a[n] EXCEPT !.alive = FALSE]
  BY <1>2, Zenon
<1> QED BY <1>2, <1>3 DEF LoginTypes

\* So does every step of the teardown, and the child's own.
LEMMA TeardownInv ==
  ASSUME LoginInv, NEW n \in Starters, Teardown(n) \/ Child(n)
  PROVE  LoginTypes' /\ AttemptInv'
<1> USE DEF LoginInv, LoginTypes, AttemptInv
<1>0. n \in Procs /\ pc \in [Procs -> {"out", "wait", "naming", "held", "unlock", "released"}]
  BY LoginAssumptions DEF LockInv, LockTypeOK
<1>1. CASE KillChild(n)
  <2>1. /\ a' \in [Starters -> AttemptState]
        /\ \A m \in Starters : m # n => a'[m] = a[m]
        /\ a'[n].fin = "killed" /\ ~a'[n].alive
    BY <1>1, KillWrite DEF KillChild
  <2> QED BY <1>1, <2>1 DEF KillChild, lockVars
<1>2. CASE ReleaseLock(n)
  <2>1. /\ a' \in [Starters -> AttemptState]
        /\ \A m \in Starters : m # n => a'[m] = a[m]
        /\ a'[n].fin = "released" /\ a'[n].alive = a[n].alive
    BY <1>2, FinWrite DEF ReleaseLock
  <2>2. \A m \in Starters : pc'[m] = IF m = n THEN "unlock" ELSE pc[m]
    BY <1>0, <1>2, LoginAssumptions DEF ReleaseLock, ClearHolder
  <2> QED BY <1>2, <2>1, <2>2 DEF ReleaseLock
<1>3. CASE ClearPointer(n)
  <2>1. /\ a' \in [Starters -> AttemptState]
        /\ \A m \in Starters : m # n => a'[m] = a[m]
        /\ a'[n].fin = "cleared" /\ a'[n].alive = a[n].alive
    BY <1>3, FinWrite DEF ClearPointer
  <2> QED BY <1>3, <2>1 DEF ClearPointer, lockVars
<1>4. CASE TTLPasses(n)
  <2>1. /\ a' \in [Starters -> AttemptState]
        /\ \A m \in Starters : a'[m].fin = a[m].fin /\ a'[m].alive = a[m].alive
    BY <1>4, OverWrite DEF TTLPasses
  <2> QED BY <1>4, <2>1 DEF TTLPasses, lockVars
<1>5. CASE Watcher(n)
  <2>1. /\ a' \in [Starters -> AttemptState]
        /\ \A m \in Starters : m # n => a'[m] = a[m]
        /\ a'[n].fin = "marked" /\ a'[n].alive = a[n].alive
    BY <1>5, FinWrite DEF Watcher, MarkFinished
  <2> QED BY <1>5, <2>1 DEF Watcher, lockVars
<1>6. CASE Child(n)
  <2>1. /\ a' \in [Starters -> AttemptState]
        /\ \A m \in Starters : a'[m].fin = a[m].fin /\ (a'[m].alive => a[m].alive)
    <3>1. CASE a' = [a EXCEPT ![n].said = "url"]
      BY <3>1 DEF AttemptState
    <3>2. CASE a' = [a EXCEPT ![n].alive = FALSE]
      BY <3>2, DeadWrite
    <3> QED BY <1>6, <3>1, <3>2 DEF Child
  <2> QED BY <1>6, <2>1 DEF Child, lockVars
<1> QED BY <1>1, <1>2, <1>3, <1>4, <1>5, <1>6 DEF Teardown

\* The invariant of the login holds throughout.
LEMMA LoginInvariance == Spec => []LoginInv
<1>1. Init => LoginInv
  <2>1. ASSUME Init PROVE LockInv
    BY <2>1, LockAssumptions DEF Init, LockInit, LockInv, LockTypeOK, Inside
  <2>2. NoAttempt \in AttemptState /\ NoAttempt.fin = "none" /\ ~NoAttempt.alive
    BY DEF NoAttempt, AttemptState
  <2>3. ASSUME Init PROVE LoginTypes /\ AttemptInv
    BY <2>2, <2>3 DEF Init, LoginTypes, AttemptInv
  <2> QED BY <2>1, <2>3 DEF LoginInv
<1>2. LoginInv /\ [Next]_vars => LoginInv'
  <2> SUFFICES ASSUME LoginInv, [Next]_vars PROVE LoginInv'
    OBVIOUS
  <2>1. LockInv'
    BY LoginUsesLock, LockStepInv DEF LoginInv
  <2>2. CASE CancelLogin
    <3>1. attempt \in Starters /\ a[attempt].fin # "none"
      BY <2>2 DEF CancelLogin, LoginInv, LoginTypes, AttemptInv
    <3>2. LoginTypes' /\ AttemptInv'
      BY <2>2, <3>1, FinishInv DEF CancelLogin, LoginInv, LoginTypes
    <3> QED BY <2>1, <3>2 DEF LoginInv
  <2>3. CASE UNCHANGED vars
    BY <2>1, <2>3 DEF LoginInv, LoginTypes, AttemptInv, vars, lockVars, loginVars
  <2> QED BY <2>1, <2>2, <2>3, LockStepAttempt, StarterInv, SubmitterInv, TeardownInv
          DEF Next, LoginInv
<1> QED BY <1>1, <1>2, PTL DEF Spec

\* The lock, the pointer and every request keep their types.
THEOREM LoginTypeCorrect == Spec => []TypeOK
<1>1. LoginInv => TypeOK
  BY DEF LoginInv, LockInv, LoginTypes, TypeOK
<1> QED BY <1>1, LoginInvariance, PTL

\* The lock keeps its promise while logins use it.
THEOREM LoginKeepsMutex == Spec => Implements /\ []HolderIsTrue
BY LoginIsACaller, LockIsMutex, HolderNamesTheHolder

\* A login child runs only under the lock, whoever of the four goroutines
\* finishes its attempt: the child is killed before the lock goes, and nobody can
\* name an attempt that has no child yet.
THEOREM ChildUnderLock == Spec => []ChildHoldsLock
<1>1. LoginInv => ChildHoldsLock
  <2> SUFFICES ASSUME LoginInv, NEW n \in Starters, a[n].alive
               PROVE  pc[n] = "held" /\ mu = n
    BY DEF ChildHoldsLock
  <2>1. pc[n] = "held" /\ n \in Procs
    BY LoginAssumptions DEF LoginInv, AttemptInv
  <2> QED BY <2>1 DEF LoginInv, LockInv, Inside
<1> QED BY <1>1, LoginInvariance, PTL

=============================================================================
