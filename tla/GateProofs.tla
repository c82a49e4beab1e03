----------------------------- MODULE GateProofs -----------------------------
(***************************************************************************)
(* Proofs about Gate, for any number of check requests, operators and      *)
(* restarts, and whatever happens around the program.                      *)
(***************************************************************************)
EXTENDS Gate, TLAPS

Pcs == {"idle", "pick", "lift", "job", "blk_read", "blk_set", "blk_emit",
        "expired", "exp_read", "exp_set", "exp_emit",
        "ok", "ok_read", "ok_set", "ok_emit",
        "probe", "recheck", "acquire", "keepalive", "login", "url", "late", "res_set"}

\* observeExpired past its early return.
Announcing == {"exp_read", "exp_set", "exp_emit"}

\* An expiry that is not announced is being announced: the goroutine that found
\* the state changed is on its way to the event.
Pending == "cut" \notin Events => warned \/ \E a \in Actors : act[a].pc \in Announcing

\* The goroutine a takes a step, to pc; the others stand.
Moves(a, pc) ==
  /\ act' \in [Actors -> ActState] /\ act'[a].pc = pc
  /\ \A b \in Actors : b # a => act'[b] = act[b]

-----------------------------------------------------------------------------
(* Steps of a goroutine *)

\* A goroutine's record keeps its type as its fields are written: the program counter.
LEMMA ActPc ==
  ASSUME NEW r \in ActState, NEW pc \in Pcs
  PROVE  [r EXCEPT !.pc = pc] \in ActState /\ [r EXCEPT !.pc = pc].pc = pc
BY DEF ActState, Pcs

\* The credential state it read.
LEMMA ActWas ==
  ASSUME NEW r \in ActState, NEW w \in {"unknown", "ok", "expired"}
  PROVE  [r EXCEPT !.was = w] \in ActState /\ [r EXCEPT !.was = w].pc = r.pc
BY DEF ActState

\* The gate state it read.
LEMMA ActSeen ==
  ASSUME NEW r \in ActState, NEW g \in {"ready", "blocked_auth", "blocked_usage", "paused"}
  PROVE  [r EXCEPT !.seen = g] \in ActState /\ [r EXCEPT !.seen = g].pc = r.pc
BY DEF ActState

\* The place it returns to.
LEMMA ActRet ==
  ASSUME NEW r \in ActState, NEW t \in {"idle", "recheck", "ok"}
  PROVE  [r EXCEPT !.ret = t] \in ActState /\ [r EXCEPT !.ret = t].pc = r.pc
BY DEF ActState

\* A step of the goroutine together with one of its other fields.
LEMMA ActPcWas ==
  ASSUME NEW r \in ActState, NEW pc \in Pcs, NEW v \in {"unknown", "ok", "expired"}
  PROVE  /\ [[r EXCEPT !.pc = pc] EXCEPT !.was = v] \in ActState
         /\ [[r EXCEPT !.pc = pc] EXCEPT !.was = v].pc = pc
<1> DEFINE q == [r EXCEPT !.pc = pc]
<1>1. q \in ActState /\ q.pc = pc
  BY ActPc
<1> HIDE DEF q
<1>2. [q EXCEPT !.was = v] \in ActState /\ [q EXCEPT !.was = v].pc = pc
  BY <1>1, ActWas
<1> QED BY <1>2 DEF q

\* The same, with the gate state it read.
LEMMA ActPcSeen ==
  ASSUME NEW r \in ActState, NEW pc \in Pcs, NEW v \in {"ready", "blocked_auth", "blocked_usage", "paused"}
  PROVE  /\ [[r EXCEPT !.pc = pc] EXCEPT !.seen = v] \in ActState
         /\ [[r EXCEPT !.pc = pc] EXCEPT !.seen = v].pc = pc
<1> DEFINE q == [r EXCEPT !.pc = pc]
<1>1. q \in ActState /\ q.pc = pc
  BY ActPc
<1> HIDE DEF q
<1>2. [q EXCEPT !.seen = v] \in ActState /\ [q EXCEPT !.seen = v].pc = pc
  BY <1>1, ActSeen
<1> QED BY <1>2 DEF q

\* The same, with the place it returns to.
LEMMA ActPcRet ==
  ASSUME NEW r \in ActState, NEW pc \in Pcs, NEW v \in {"idle", "recheck", "ok"}
  PROVE  /\ [[r EXCEPT !.pc = pc] EXCEPT !.ret = v] \in ActState
         /\ [[r EXCEPT !.pc = pc] EXCEPT !.ret = v].pc = pc
<1> DEFINE q == [r EXCEPT !.pc = pc]
<1>1. q \in ActState /\ q.pc = pc
  BY ActPc
<1> HIDE DEF q
<1>2. [q EXCEPT !.ret = v] \in ActState /\ [q EXCEPT !.ret = v].pc = pc
  BY <1>1, ActRet
<1> QED BY <1>2 DEF q

\* Writing one goroutine's record moves that goroutine.
LEMMA ActMoves ==
  ASSUME act \in [Actors -> ActState], NEW a \in Actors, NEW r \in ActState,
         act' = [act EXCEPT ![a] = r]
  PROVE  Moves(a, r.pc)
BY DEF Moves

\* Goto moves its goroutine.
LEMMA GotoMoves ==
  ASSUME act \in [Actors -> ActState], NEW a \in Actors, NEW pc \in Pcs, Goto(a, pc)
  PROVE  Moves(a, pc)
<1> DEFINE r == [act[a] EXCEPT !.pc = pc]
<1>1. act' = [act EXCEPT ![a] = r]
  BY DEF Goto
<1>2. r \in ActState /\ r.pc = pc
  BY ActPc
<1> HIDE DEF r
<1> QED BY <1>1, <1>2, ActMoves

\* So does a return, which gives back no lock but its own.
LEMMA ReturnMoves ==
  ASSUME act \in [Actors -> ActState], lock \in Actors \union {"free"},
         NEW a \in Actors, Return(a)
  PROVE  /\ act[a].ret \in {"idle", "recheck", "ok"} /\ Moves(a, act[a].ret)
         /\ lock' \in Actors \union {"free"}
<1> DEFINE r == [Idle EXCEPT !.pc = act[a].ret]
<1>1. act[a].ret \in {"idle", "recheck", "ok"}
  BY DEF ActState
<1>2. Idle \in ActState
  BY DEF Idle, ActState
<1>6. act[a].ret \in Pcs
  BY <1>1 DEF Pcs
<1>3. r \in ActState /\ r.pc = act[a].ret
  BY <1>2, <1>6, ActPc
<1>4. act' = [act EXCEPT ![a] = r]
  BY DEF Return
<1>5. lock' \in Actors \union {"free"}
  BY DEF Return
<1> HIDE DEF r
<1> QED BY <1>1, <1>3, <1>4, <1>5, ActMoves

\* A return from outside observeExpired, or any other step of a goroutine there,
\* leaves an announcement in progress to whoever makes it.
LEMMA OthersAnnounce ==
  ASSUME Pending, NEW a \in Actors, NEW pc, Moves(a, pc), UNCHANGED warned,
         act[a].pc \notin Announcing \/ pc \in Announcing
  PROVE  Pending'
BY DEF Pending, Moves

-----------------------------------------------------------------------------
(* The steps of Next, one lemma per group *)


\* What SetExecutorState writes is a row.
LEMMA ToIsRow == \A st \in {"ready", "blocked_auth", "blocked_usage", "paused"} : To(st) \in GateState
BY DEF To, GateState

\* What the step of a goroutine that is announcing nothing has to keep.
LEMMA PlainStep ==
  ASSUME TypeOK, Pending, NEW a \in Actors, NEW pc \in Pcs, Moves(a, pc),
         act[a].pc \notin Announcing \/ pc \in Announcing,
         gate' \in GateState, cred' \in {"valid", "stale", "out"},
         mstate' \in {"unknown", "ok", "expired"}, lock' \in Actors \union {"free"},
         told' \in {"none", "required", "restored"}, usageTold' \in BOOLEAN,
         UNCHANGED attempt \/ attempt' \in {"nil", "live", "over"}, UNCHANGED <<warned, crashes>>
  PROVE  TypeOK' /\ Pending'
<1>1. Pending'
  BY OthersAnnounce
<1>2. TypeOK'
  BY DEF TypeOK, Moves
<1> QED BY <1>1, <1>2

\* observeExpired: the goroutine that finds a change leaves by way of the event.
LEMMA ObserveStep ==
  ASSUME TypeOK, Pending, NEW a \in Actors, Observe(a)
  PROVE  TypeOK' /\ Pending'
<1>t. /\ act \in [Actors -> ActState] /\ lock \in Actors \union {"free"} /\ gate \in GateState
      /\ mstate \in {"unknown", "ok", "expired"} /\ cred \in {"valid", "stale", "out"}
      /\ told \in {"none", "required", "restored"} /\ usageTold \in BOOLEAN
  BY DEF TypeOK
<1>p. {"exp_read", "exp_set", "exp_emit", "idle", "recheck", "ok"} \subseteq Pcs
  BY DEF Pcs
<1>1. CASE ObserveExpired(a)
  <2>1. CASE mstate = "expired" /\ Return(a) /\ UNCHANGED warned
    <3>1. Moves(a, act[a].ret) /\ act[a].ret \in Pcs /\ lock' \in Actors \union {"free"}
      BY <1>t, <1>p, <2>1, ReturnMoves
    <3>2. act[a].pc \notin Announcing
      BY <1>1 DEF ObserveExpired, At, Announcing
    <3>3. UNCHANGED <<gate, cred, told, usageTold, attempt, crashes, warned>> /\ mstate' = "expired"
      BY <1>1, <2>1 DEF ObserveExpired
    <3> QED BY <1>t, <3>1, <3>2, <3>3, PlainStep
  <2>2. CASE Goto(a, "exp_read") /\ warned' = FALSE /\ UNCHANGED lock
    <3>1. Moves(a, "exp_read")
      BY <1>t, <1>p, <2>2, GotoMoves
    <3>2. UNCHANGED <<gate, cred, told, usageTold, attempt, crashes>> /\ mstate' = "expired"
      BY <1>1 DEF ObserveExpired
    <3>3. TypeOK'
      BY <2>2, <3>1, <3>2 DEF TypeOK, Moves
    <3>4. act'[a].pc \in Announcing
      BY <3>1 DEF Moves, Announcing
    <3> QED BY <3>3, <3>4 DEF Pending
  <2> QED BY <1>1, <2>1, <2>2 DEF ObserveExpired
<1>2. CASE ExpiredRead(a)
  <2>1. PICK pc \in {"exp_emit", "exp_set"} : Goto(a, pc)
    BY <1>2 DEF ExpiredRead
  <2>2. Moves(a, pc) /\ pc \in Announcing /\ pc \in Pcs
    BY <1>t, <1>p, <2>1, GotoMoves DEF Announcing
  <2>3. UNCHANGED <<gate, cred, mstate, lock, told, warned, usageTold, attempt, crashes>>
    BY <1>2 DEF ExpiredRead, hist
  <2> QED BY <1>t, <2>2, <2>3, PlainStep
<1>3. CASE ExpiredSet(a)
  <2>1. Moves(a, "exp_emit") /\ "exp_emit" \in Announcing
    BY <1>t, <1>p, <1>3, GotoMoves DEF ExpiredSet, Announcing
  <2>2. gate' \in GateState /\ UNCHANGED <<cred, mstate, lock, told, warned, usageTold, attempt, crashes>>
    BY <1>3, ToIsRow DEF ExpiredSet, hist
  <2> QED BY <1>t, <1>p, <2>1, <2>2, PlainStep
<1>4. CASE ExpiredEmit(a)
  <2>1. Moves(a, act[a].ret) /\ lock' \in Actors \union {"free"}
    BY <1>t, <1>4, ReturnMoves DEF ExpiredEmit
  <2>2. /\ told' = "required" /\ warned' = TRUE
        /\ UNCHANGED <<gate, cred, mstate, usageTold, attempt, crashes>>
    BY <1>4 DEF ExpiredEmit
  <2> QED BY <2>1, <2>2 DEF TypeOK, Pending, Moves
<1> QED BY <1>1, <1>2, <1>3, <1>4 DEF Observe

\* transitionToOK.
LEMMA RestoreStep ==
  ASSUME TypeOK, Pending, NEW a \in Actors, Restore(a)
  PROVE  TypeOK' /\ Pending'
<1>t. /\ act \in [Actors -> ActState] /\ lock \in Actors \union {"free"} /\ gate \in GateState
      /\ mstate \in {"unknown", "ok", "expired"} /\ cred \in {"valid", "stale", "out"}
      /\ told \in {"none", "required", "restored"} /\ usageTold \in BOOLEAN
  BY DEF TypeOK
<1>p. {"ok_read", "ok_set", "ok_emit", "idle", "recheck", "ok"} \subseteq Pcs
  BY DEF Pcs
<1>b. act[a] \in ActState
  BY <1>t
<1>a. act[a].pc \notin Announcing
  BY DEF Restore, TransitionToOK, OKRead, OKSet, OKEmit, At, Announcing
<1>1. CASE TransitionToOK(a)
  <2> DEFINE r == [[[act[a] EXCEPT !.pc = "ok_read"] EXCEPT !.was = mstate] EXCEPT !.ret = "idle"]
  <2>1. r \in ActState /\ r.pc = "ok_read"
    <3> DEFINE q == [[act[a] EXCEPT !.pc = "ok_read"] EXCEPT !.was = mstate]
    <3>1. q \in ActState /\ q.pc = "ok_read"
      BY <1>b, <1>p, <1>t, ActPcWas, Zenon
    <3> HIDE DEF q
    <3>2. [q EXCEPT !.ret = "idle"] \in ActState /\ [q EXCEPT !.ret = "idle"].pc = "ok_read"
      BY <3>1, ActRet
    <3> QED BY <3>2 DEF q
  <2>2. act' = [act EXCEPT ![a] = r]
    BY <1>1, <1>t DEF TransitionToOK
  <2> HIDE DEF r
  <2>3. Moves(a, "ok_read")
    BY <1>t, <2>1, <2>2, ActMoves
  <2>4. mstate' = "ok" /\ UNCHANGED <<gate, cred, lock, told, warned, usageTold, attempt, crashes>>
    BY <1>1 DEF TransitionToOK, hist
  <2> QED BY <1>t, <1>p, <1>a, <2>3, <2>4, PlainStep
<1>2. CASE OKRead(a)
  <2>1. UNCHANGED <<gate, cred, mstate, told, warned, usageTold, attempt, crashes>>
    BY <1>2 DEF OKRead, hist
  <2>2. CASE Return(a)
    <3>1. Moves(a, act[a].ret) /\ act[a].ret \in Pcs /\ lock' \in Actors \union {"free"}
      BY <1>t, <1>p, <2>2, ReturnMoves
    <3> QED BY <1>t, <1>a, <2>1, <3>1, PlainStep
  <2>3. CASE /\ act' = [act EXCEPT ![a].pc = IF gate.st = "blocked_auth" THEN "ok_set" ELSE "ok_emit",
                                   ![a].was = "unknown"]
             /\ UNCHANGED lock
    <3>1. PICK pc \in {"ok_set", "ok_emit"} : act' = [act EXCEPT ![a].pc = pc, ![a].was = "unknown"]
      BY <2>3
    <3> DEFINE r == [[act[a] EXCEPT !.pc = pc] EXCEPT !.was = "unknown"]
    <3>5. pc \in Pcs /\ "unknown" \in {"unknown", "ok", "expired"}
      BY <1>p
    <3>2. r \in ActState /\ r.pc = pc
      BY <1>b, <3>5, ActPcWas, Zenon
    <3>3. act' = [act EXCEPT ![a] = r]
      BY <3>1, <1>t
    <3> HIDE DEF r
    <3>4. Moves(a, pc) /\ pc \in Pcs
      BY <1>t, <1>p, <3>2, <3>3, ActMoves
    <3> QED BY <1>t, <1>a, <2>1, <2>3, <3>4, PlainStep
  <2> QED BY <1>2, <2>2, <2>3 DEF OKRead
<1>3. CASE OKSet(a)
  <2>1. Moves(a, "ok_emit")
    BY <1>t, <1>p, <1>3, GotoMoves DEF OKSet
  <2>2. gate' \in GateState /\ UNCHANGED <<cred, mstate, lock, told, warned, usageTold, attempt, crashes>>
    BY <1>3, ToIsRow DEF OKSet, hist
  <2> QED BY <1>t, <1>p, <1>a, <2>1, <2>2, PlainStep
<1>4. CASE OKEmit(a)
  <2>1. Moves(a, act[a].ret) /\ act[a].ret \in Pcs /\ lock' \in Actors \union {"free"}
    BY <1>t, <1>p, <1>4, ReturnMoves DEF OKEmit
  <2>2. told' = "restored" /\ UNCHANGED <<gate, cred, mstate, warned, usageTold, attempt, crashes>>
    BY <1>4 DEF OKEmit
  <2> QED BY <1>t, <1>a, <2>1, <2>2, PlainStep
<1> QED BY <1>1, <1>2, <1>3, <1>4 DEF Restore

\* The executor.
LEMMA ExecutorStep ==
  ASSUME TypeOK, Pending, Executor
  PROVE  TypeOK' /\ Pending'
<1>t. /\ act \in [Actors -> ActState] /\ lock \in Actors \union {"free"} /\ gate \in GateState
      /\ mstate \in {"unknown", "ok", "expired"} /\ cred \in {"valid", "stale", "out"}
      /\ told \in {"none", "required", "restored"} /\ usageTold \in BOOLEAN
  BY DEF TypeOK
<1>e. "executor" \in Actors
  BY DEF Actors, Goroutines
<1>p. {"idle", "pick", "lift", "job", "blk_read", "blk_set", "blk_emit", "expired"} \subseteq Pcs
  BY DEF Pcs
<1>b. act["executor"] \in ActState
  BY <1>t, <1>e
<1>a. act["executor"].pc \notin Announcing
  BY DEF Executor, ReadGate, LiftUsageBlock, StartJob, JobEnds, BlockRead, BlockSet, BlockEmit,
         At, Announcing
<1>1. CASE ReadGate
  <2>1. PICK pc \in {"pick", "lift"} : Goto("executor", pc)
    BY <1>1 DEF ReadGate
  <2>2. Moves("executor", pc) /\ pc \in Pcs
    BY <1>t, <1>e, <1>p, <2>1, GotoMoves
  <2>3. UNCHANGED <<gate, cred, mstate, lock, told, warned, usageTold, attempt, crashes>>
    BY <1>1 DEF ReadGate, hist
  <2> QED BY <1>t, <1>e, <1>a, <2>2, <2>3, PlainStep
<1>2. CASE LiftUsageBlock
  <2>1. Moves("executor", "idle")
    BY <1>t, <1>e, <1>p, <1>2, GotoMoves DEF LiftUsageBlock
  <2>2. gate' \in GateState /\ UNCHANGED <<cred, mstate, lock, told, warned, usageTold, attempt, crashes>>
    BY <1>2, ToIsRow DEF LiftUsageBlock, hist
  <2> QED BY <1>t, <1>e, <1>p, <1>a, <2>1, <2>2, PlainStep
<1>3. CASE StartJob
  <2>1. PICK pc \in {"idle", "job"} : Goto("executor", pc)
    BY <1>3 DEF StartJob
  <2>2. Moves("executor", pc) /\ pc \in Pcs
    BY <1>t, <1>e, <1>p, <2>1, GotoMoves
  <2>3. /\ UNCHANGED <<gate, cred, mstate, told, warned, usageTold, attempt, crashes>>
        /\ lock' \in Actors \union {"free"}
    BY <1>3, <1>t, <1>e DEF StartJob, hist
  <2> QED BY <1>t, <1>e, <1>a, <2>2, <2>3, PlainStep
<1>4. CASE JobEnds
  <2>1. PICK pc \in {"idle", "blk_read", "expired"} : Goto("executor", pc)
    BY <1>4 DEF JobEnds
  <2>2. Moves("executor", pc) /\ pc \in Pcs
    BY <1>t, <1>e, <1>p, <2>1, GotoMoves
  <2>3. UNCHANGED <<gate, cred, mstate, told, warned, usageTold, attempt, crashes>> /\ lock' = "free"
    BY <1>4 DEF JobEnds, hist
  <2> QED BY <1>t, <1>e, <1>a, <2>2, <2>3, PlainStep
<1>5. CASE BlockRead
  <2>0. gate.st \in {"ready", "blocked_auth", "blocked_usage", "paused"}
    BY <1>t DEF GateState
  <2> DEFINE r == [[act["executor"] EXCEPT !.pc = "blk_set"] EXCEPT !.seen = gate.st]
  <2>5. "blk_set" \in Pcs
    BY <1>p
  <2>1. r \in ActState /\ r.pc = "blk_set"
    BY <1>b, <2>0, <2>5, ActPcSeen, ZenonT(30)
  <2>2. act' = [act EXCEPT !["executor"] = r]
    BY <1>5, <1>t, <1>e DEF BlockRead
  <2> HIDE DEF r
  <2>3. Moves("executor", "blk_set")
    BY <1>t, <1>e, <2>1, <2>2, ActMoves
  <2>4. UNCHANGED <<gate, cred, mstate, lock, told, warned, usageTold, attempt, crashes>>
    BY <1>5 DEF BlockRead, hist
  <2> QED BY <1>t, <1>e, <1>p, <1>a, <2>3, <2>4, PlainStep
<1>6. CASE BlockSet
  <2>1. PICK pc \in {"idle", "blk_emit"} : act' = [act EXCEPT !["executor"] = [Idle EXCEPT !.pc = pc]]
    BY <1>6 DEF BlockSet
  <2>2. Idle \in ActState
    BY DEF Idle, ActState
  <2> DEFINE r == [Idle EXCEPT !.pc = pc]
  <2>3. r \in ActState /\ r.pc = pc
    BY <1>p, <2>2, ActPc
  <2>4. act' = [act EXCEPT !["executor"] = r]
    BY <2>1
  <2> HIDE DEF r
  <2>5. Moves("executor", pc) /\ pc \in Pcs
    BY <1>t, <1>e, <1>p, <2>3, <2>4, ActMoves
  <2>6. gate' \in GateState /\ UNCHANGED <<cred, mstate, lock, told, warned, usageTold, attempt, crashes>>
    BY <1>6, ToIsRow DEF BlockSet, hist
  <2> QED BY <1>t, <1>e, <1>a, <2>5, <2>6, PlainStep
<1>7. CASE BlockEmit
  <2>1. Moves("executor", "idle")
    BY <1>t, <1>e, <1>p, <1>7, GotoMoves DEF BlockEmit
  <2>2. usageTold' \in BOOLEAN /\ UNCHANGED <<gate, cred, mstate, lock, told, warned, attempt, crashes>>
    BY <1>7 DEF BlockEmit
  <2> QED BY <1>t, <1>e, <1>p, <1>a, <2>1, <2>2, PlainStep
<1> QED BY <1>1, <1>2, <1>3, <1>4, <1>5, <1>6, <1>7 DEF Executor

\* A goroutine calls a procedure and says where it returns to.
LEMMA CallMoves ==
  ASSUME act \in [Actors -> ActState], NEW a \in Actors, NEW pc \in Pcs,
         NEW t \in {"idle", "recheck", "ok"},
         act' = [act EXCEPT ![a].pc = pc, ![a].ret = t]
  PROVE  Moves(a, pc)
<1> DEFINE r == [[act[a] EXCEPT !.pc = pc] EXCEPT !.ret = t]
<1>1. act[a] \in ActState
  OBVIOUS
<1>2. r \in ActState /\ r.pc = pc
  BY <1>1, ActPcRet, Zenon
<1>3. act' = [act EXCEPT ![a] = r]
  BY <1>1
<1> HIDE DEF r
<1> QED BY <1>2, <1>3, ActMoves

\* The manager's loop and the login's steps.
LEMMA LoopStep ==
  ASSUME TypeOK, Pending,
         ManagerTick \/ Recheck \/ StartLogin \/ PublishLogin \/ FinishLogin
  PROVE  TypeOK' /\ Pending'
<1>t. /\ act \in [Actors -> ActState] /\ lock \in Actors \union {"free"} /\ gate \in GateState
      /\ mstate \in {"unknown", "ok", "expired"} /\ cred \in {"valid", "stale", "out"}
      /\ told \in {"none", "required", "restored"} /\ usageTold \in BOOLEAN
  BY DEF TypeOK
<1>e. "manager" \in Actors /\ "login" \in Actors
  BY DEF Actors, Goroutines
<1>p. {"idle", "probe", "acquire", "login", "url", "late"} \subseteq Pcs
  BY DEF Pcs
<1>1. CASE ManagerTick
  <2>1. PICK pc \in {"probe", "acquire"}, t \in {"recheck", "idle"} :
           act' = [act EXCEPT !["manager"].pc = pc, !["manager"].ret = t]
    BY <1>1 DEF ManagerTick
  <2>2. Moves("manager", pc) /\ pc \in Pcs
    BY <1>t, <1>e, <1>p, <2>1, CallMoves
  <2>3. act["manager"].pc \notin Announcing
    BY <1>1 DEF ManagerTick, At, Announcing
  <2>4. UNCHANGED <<gate, cred, mstate, lock, told, warned, usageTold, attempt, crashes>>
    BY <1>1 DEF ManagerTick, hist
  <2> QED BY <1>t, <1>e, <2>2, <2>3, <2>4, PlainStep
<1>2. CASE Recheck
  <2>1. PICK pc \in {"acquire", "idle"} :
           act' = [act EXCEPT !["manager"].pc = pc, !["manager"].ret = "idle"]
    BY <1>2 DEF Recheck
  <2>2. Moves("manager", pc) /\ pc \in Pcs
    BY <1>t, <1>e, <1>p, <2>1, CallMoves
  <2>3. act["manager"].pc \notin Announcing
    BY <1>2 DEF Recheck, At, Announcing
  <2>4. UNCHANGED <<gate, cred, mstate, lock, told, warned, usageTold, attempt, crashes>>
    BY <1>2 DEF Recheck, hist
  <2> QED BY <1>t, <1>e, <2>2, <2>3, <2>4, PlainStep
<1>3. CASE StartLogin
  <2>1. Moves("login", "login")
    BY <1>t, <1>e, <1>p, <1>3, GotoMoves DEF StartLogin
  <2>2. act["login"].pc \notin Announcing
    BY <1>3 DEF StartLogin, At, Announcing
  <2>3. UNCHANGED <<gate, cred, mstate, told, warned, usageTold, attempt, crashes>> /\ lock' = "login"
    BY <1>3 DEF StartLogin, hist
  <2> QED BY <1>t, <1>e, <1>p, <2>1, <2>2, <2>3, PlainStep
<1>4. CASE PublishLogin
  <2>1. PICK pc \in {"url", "idle"} : Goto("login", pc)
    BY <1>4 DEF PublishLogin
  <2>2. Moves("login", pc)
    BY <1>t, <1>e, <1>p, <2>1, GotoMoves
  <2>3. act["login"].pc \notin Announcing
    BY <1>4 DEF PublishLogin, At, Announcing
  <2>4. /\ UNCHANGED <<gate, cred, mstate, lock, told, warned, usageTold, crashes>>
        /\ attempt' \in {"nil", "live", "over"}
    BY <1>4 DEF PublishLogin, hist
  <2> QED BY <1>t, <1>e, <1>p, <2>2, <2>3, <2>4, PlainStep
<1>5. CASE FinishLogin
  <2>1. act["login"].pc \notin Announcing
    BY <1>5 DEF FinishLogin, At, Announcing
  <2>2. /\ UNCHANGED <<gate, mstate, told, warned, usageTold, crashes>> /\ lock' = "free"
        /\ UNCHANGED attempt \/ attempt' \in {"nil", "live", "over"}
    BY <1>5 DEF FinishLogin, hist
  <2>3. CASE /\ cred' = "valid"
             /\ act' = [act EXCEPT !["login"].pc = "probe", !["login"].ret = "ok"]
    <3>1. Moves("login", "probe")
      BY <1>t, <1>e, <1>p, <2>3, CallMoves
    <3> QED BY <1>t, <1>e, <1>p, <2>1, <2>2, <2>3, <3>1, PlainStep
  <2>4. CASE (\E pc \in {"idle", "late"} : Goto("login", pc)) /\ UNCHANGED cred
    <3>1. PICK pc \in {"idle", "late"} : Goto("login", pc)
      BY <2>4
    <3>2. Moves("login", pc)
      BY <1>t, <1>e, <1>p, <3>1, GotoMoves
    <3> QED BY <1>t, <1>e, <1>p, <2>1, <2>2, <2>4, <3>2, PlainStep
  <2> QED BY <1>5, <2>3, <2>4 DEF FinishLogin
<1> QED BY <1>1, <1>2, <1>3, <1>4, <1>5

\* The checks, and the operator's requests.
LEMMA RequestStep ==
  ASSUME TypeOK, Pending, NEW a \in Actors,
         Probe(a) \/ CheckAuth(a) \/ Acquire(a) \/ Keepalive(a) \/ ResumeRead(a) \/ ResumeSet(a)
  PROVE  TypeOK' /\ Pending'
<1>t. /\ act \in [Actors -> ActState] /\ lock \in Actors \union {"free"} /\ gate \in GateState
      /\ mstate \in {"unknown", "ok", "expired"} /\ cred \in {"valid", "stale", "out"}
      /\ told \in {"none", "required", "restored"} /\ usageTold \in BOOLEAN
  BY DEF TypeOK
<1>p. {"idle", "recheck", "ok", "expired", "acquire", "keepalive", "res_set"} \subseteq Pcs
  BY DEF Pcs
<1>r. act[a].ret \in {"idle", "recheck", "ok"}
  BY <1>t DEF ActState
<1>a. act[a].pc \notin Announcing
  BY DEF Probe, CheckAuth, Acquire, Keepalive, KeepaliveOK, KeepaliveFails, ResumeRead, ResumeSet,
         At, Announcing
<1>1. CASE Probe(a)
  <2>1. PICK pc \in {"idle", "recheck", "ok", "expired"} : Goto(a, pc)
    BY <1>1, <1>r DEF Probe
  <2>2. Moves(a, pc) /\ pc \in Pcs
    BY <1>t, <1>p, <2>1, GotoMoves
  <2>3. /\ UNCHANGED <<gate, cred, lock, told, warned, usageTold, attempt, crashes>>
        /\ mstate' \in {"unknown", "ok", "expired"}
    BY <1>1, <1>t DEF Probe, hist
  <2> QED BY <1>t, <1>a, <2>2, <2>3, PlainStep
<1>2. CASE CheckAuth(a)
  <2>1. Moves(a, "acquire")
    BY <1>t, <1>p, <1>2, GotoMoves DEF CheckAuth
  <2>2. UNCHANGED <<gate, cred, mstate, lock, told, warned, usageTold, attempt, crashes>>
    BY <1>2 DEF CheckAuth, hist
  <2> QED BY <1>t, <1>p, <1>a, <2>1, <2>2, PlainStep
<1>3. CASE Acquire(a)
  <2>1. Moves(a, "keepalive")
    BY <1>t, <1>p, <1>3, GotoMoves DEF Acquire
  <2>2. UNCHANGED <<gate, cred, mstate, told, warned, usageTold, attempt, crashes>> /\ lock' = a
    BY <1>3 DEF Acquire, hist
  <2> QED BY <1>t, <1>p, <1>a, <2>1, <2>2, PlainStep
<1>4. CASE KeepaliveOK(a)
  <2>1. Moves(a, "ok")
    BY <1>t, <1>p, <1>4, GotoMoves DEF KeepaliveOK
  <2>2. UNCHANGED <<gate, cred, mstate, lock, told, warned, usageTold, attempt, crashes>>
    BY <1>4 DEF KeepaliveOK, hist
  <2> QED BY <1>t, <1>p, <1>a, <2>1, <2>2, PlainStep
<1>5. CASE KeepaliveFails(a)
  <2>1. UNCHANGED <<gate, cred, mstate, told, warned, usageTold, attempt, crashes>>
    BY <1>5 DEF KeepaliveFails, hist
  <2>2. CASE Goto(a, "expired") /\ UNCHANGED lock
    <3>1. Moves(a, "expired")
      BY <1>t, <1>p, <2>2, GotoMoves
    <3> QED BY <1>t, <1>p, <1>a, <2>1, <2>2, <3>1, PlainStep
  <2>3. CASE Return(a)
    <3>1. Moves(a, act[a].ret) /\ act[a].ret \in Pcs /\ lock' \in Actors \union {"free"}
      BY <1>t, <1>p, <2>3, ReturnMoves
    <3> QED BY <1>t, <1>a, <2>1, <3>1, PlainStep
  <2> QED BY <1>5, <2>2, <2>3 DEF KeepaliveFails
<1>6. CASE ResumeRead(a)
  <2>1. Moves(a, "res_set")
    BY <1>t, <1>p, <1>6, GotoMoves DEF ResumeRead
  <2>2. UNCHANGED <<gate, cred, mstate, lock, told, warned, usageTold, attempt, crashes>>
    BY <1>6 DEF ResumeRead, hist
  <2> QED BY <1>t, <1>p, <1>a, <2>1, <2>2, PlainStep
<1>7. CASE ResumeSet(a)
  <2>1. Moves(a, "idle")
    BY <1>t, <1>p, <1>7, GotoMoves DEF ResumeSet
  <2>2. gate' \in GateState /\ UNCHANGED <<cred, mstate, lock, told, warned, usageTold, attempt, crashes>>
    BY <1>7, ToIsRow DEF ResumeSet, hist
  <2> QED BY <1>t, <1>p, <1>a, <2>1, <2>2, PlainStep
<1> QED BY <1>1, <1>2, <1>3, <1>4, <1>5, <1>6, <1>7 DEF Keepalive

\* A request that is cut short may leave its announcement unmade, which Pending
\* grants; it still leaves a well-formed state.
LEMMA CutStep ==
  ASSUME TypeOK, NEW a \in Actors, Cut(a)
  PROVE  TypeOK' /\ Pending'
<1>t. /\ act \in [Actors -> ActState] /\ lock \in Actors \union {"free"} /\ gate \in GateState
      /\ mstate \in {"unknown", "ok", "expired"} /\ cred \in {"valid", "stale", "out"}
      /\ told \in {"none", "required", "restored"} /\ usageTold \in BOOLEAN
  BY DEF TypeOK
<1>1. Moves(a, act[a].ret) /\ lock' \in Actors \union {"free"}
  BY <1>t, ReturnMoves DEF Cut
<1>2. UNCHANGED <<gate, cred, mstate, told, warned, usageTold, attempt, crashes>> /\ "cut" \in Events
  BY DEF Cut, hist
<1>3. TypeOK'
  BY <1>1, <1>2 DEF TypeOK, Moves
<1> QED BY <1>2, <1>3 DEF Pending

\* A process that starts: every goroutine in its place.
LEMMA BootedTypes == Booted \in [Actors -> ActState]
<1>1. Idle \in ActState
  BY DEF Idle, ActState
<1>2. "probe" \in Pcs
  BY DEF Pcs
<1>3. [Idle EXCEPT !.pc = "probe"] \in ActState
  BY <1>1, <1>2, ActPc
<1> QED BY <1>1, <1>3 DEF Booted

\* Time, the session, a restart and a pause touch no goroutine, or all of them.
LEMMA OutsideStep ==
  ASSUME TypeOK, Pending,
         Tick \/ SessionChanges \/ Restart \/ \E a \in Actors : PauseExecutor(a)
  PROVE  TypeOK' /\ Pending'
<1>1. CASE Tick
  <2>1. gate' \in GateState
    BY <1>1 DEF Tick, TypeOK, GateState
  <2>2. UNCHANGED <<cred, mstate, lock, act, told, warned, attempt, crashes>> /\ usageTold' = FALSE
    BY <1>1 DEF Tick
  <2> QED BY <2>1, <2>2 DEF TypeOK, Pending
<1>2. CASE SessionChanges
  <2>1. cred' \in {"valid", "stale", "out"}
    BY <1>2 DEF SessionChanges
  <2>2. UNCHANGED <<gate, mstate, lock, act, told, warned, usageTold, attempt, crashes>>
    BY <1>2 DEF SessionChanges, hist
  <2> QED BY <2>1, <2>2 DEF TypeOK, Pending
<1>3. CASE Restart
  <2>1. /\ act' = Booted /\ warned' = TRUE /\ told' = "none" /\ lock' = "free"
        /\ mstate' = "unknown" /\ crashes' = crashes + 1 /\ UNCHANGED <<gate, cred, usageTold>>
        /\ attempt' = "nil"
    BY <1>3 DEF Restart
  <2> QED BY <2>1, BootedTypes DEF TypeOK, Pending
<1>4. CASE \E a \in Actors : PauseExecutor(a)
  <2>1. gate' \in GateState /\ UNCHANGED <<cred, mstate, lock, act, told, warned, usageTold, attempt, crashes>>
    BY <1>4, ToIsRow DEF PauseExecutor, hist
  <2> QED BY <2>1 DEF TypeOK, Pending
<1> QED BY <1>1, <1>2, <1>3, <1>4

-----------------------------------------------------------------------------
(* The theorems *)

\* TypeOK /\ Pending holds where a process starts and after every step.
LEMMA GateInductive == Spec => [](TypeOK /\ Pending)
<1>1. Init => TypeOK /\ Pending
  <2> SUFFICES ASSUME Init PROVE TypeOK /\ Pending
    OBVIOUS
  <2>1. gate \in GateState
    BY ToIsRow DEF Init
  <2>2. (gate.st = "blocked_usage") \in BOOLEAN
    OBVIOUS
  <2> QED BY <2>1, <2>2, BootedTypes DEF Init, TypeOK, Pending
<1>2. TypeOK /\ Pending /\ [Next]_vars => (TypeOK /\ Pending)'
  <2> SUFFICES ASSUME TypeOK, Pending, [Next]_vars PROVE TypeOK' /\ Pending'
    OBVIOUS
  <2>1. CASE Next
    <3>1. CASE \/ Tick \/ Executor \/ ManagerTick \/ Recheck
               \/ StartLogin \/ PublishLogin \/ FinishLogin \/ SessionChanges \/ Restart
      BY <3>1, OutsideStep, ExecutorStep, LoopStep
    <3>2. CASE \E a \in Actors :
                  \/ Observe(a) \/ Restore(a) \/ Probe(a) \/ CheckAuth(a) \/ Acquire(a)
                  \/ Keepalive(a) \/ Cut(a)
                  \/ PauseExecutor(a) \/ ResumeRead(a) \/ ResumeSet(a)
      BY <3>2, ObserveStep, RestoreStep, RequestStep, CutStep, OutsideStep
    <3> QED BY <2>1, <3>1, <3>2 DEF Next
  <2>2. CASE UNCHANGED vars
    BY <2>2 DEF vars, hist, TypeOK, Pending
  <2> QED BY <2>1, <2>2
<1> QED BY <1>1, <1>2, PTL DEF Spec

\* The gate row, the manager's state and every goroutine keep their types, through
\* any interleaving, cut request or restart.
THEOREM GateTypeCorrect == Spec => []TypeOK
BY GateInductive, PTL

\* Where no request is cut short, an expiry the manager holds is announced by the
\* time every goroutine has finished: the early return of observeExpired never
\* swallows auth.required, however many observers and restorers race.
THEOREM ExpiryAnnounced == Spec => []ExpiryIsAnnounced
<1>1. Pending => ExpiryIsAnnounced
  <2> SUFFICES ASSUME Pending, "cut" \notin Events, Quiet PROVE warned
    BY DEF ExpiryIsAnnounced
  <2>1. \A a \in Actors : act[a].pc \notin Announcing
    BY DEF Quiet, Announcing
  <2> QED BY <2>1 DEF Pending
<1> QED BY <1>1, GateInductive, PTL

=============================================================================
