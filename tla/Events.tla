------------------------------- MODULE Events -------------------------------
(***************************************************************************)
(* From something worth telling to those who hear of it: the Notifier and  *)
(* the Broker (internal/event/notifier.go), the live stream of the API     *)
(* (internal/api/events.go), and, through the outbox, the sender of        *)
(* Delivery.                                                               *)
(*                                                                         *)
(* The executor, the auth manager and the API's handlers emit.  Each       *)
(* builds an envelope, calls Notifier.Deliveries, which publishes it to    *)
(* the live stream and returns the rows for the outbox, and then commits   *)
(* the rows (with the job's result or by themselves) in a transaction that *)
(* may fail.                                                               *)
(***************************************************************************)
EXTENDS Delivery

CONSTANTS
  Emitters,     \* goroutines that emit
  Envelopes,    \* what they emit: [event, queue], queue is NoQueue or a queue
  ServiceEvents,
  NoQueue,
  Notify,       \* configured queues -> events of their notify lists
  Webhooks,     \* receivers -> events of their config, {} for all
  Tokens,       \* subscribers to the live stream -> queues their token allows
  Buffer,       \* of a subscriber's channel; 32 in the code
  MaxEvents     \* bound: events ever emitted

ASSUME EventsAssumptions ==
  /\ Buffer \in Nat \ {0} /\ MaxEvents \in Nat
  /\ IsFiniteSet(Emitters) /\ IsFiniteSet(DOMAIN Webhooks)
  /\ MaxRows >= MaxEvents * Cardinality(DOMAIN Webhooks)

Subs == DOMAIN Tokens
EventIds == 1 .. MaxEvents

VARIABLES
  published, \* history: envelopes in the order they were published; the
             \* position is the event_id
  emitter,   \* the emitting goroutines: [pc, env, id, to]
  content,   \* of the outbox rows: <<event_id, receiver>>, in id order
  committed, \* history: events whose transaction was committed
  subs       \* the broker's subscribers: [on, chan, got, since, lost]

eventVars == <<published, emitter, content, committed, subs>>
vars == <<deliveryVars, eventVars>>

IdleEmitter == [pc |-> "idle", env |-> {}, id |-> 0, to |-> <<>>]
Gone == [on |-> FALSE, chan |-> <<>>, got |-> <<>>, since |-> 0, lost |-> FALSE]

Up == ~Sending("down")

-----------------------------------------------------------------------------
(* Broker *)

\* Mutant: one subscriber that is behind ends the loop.
DeliverUntilFull(id) ==
  [s \in Subs |->
     IF \A t \in Subs : subs[t].on => Len(subs[t].chan) < Buffer
     THEN [subs[s] EXCEPT !.chan = IF subs[s].on THEN Append(@, id) ELSE @]
     ELSE subs[s]]

\* Publish: every subscriber whose channel has room; the rest lose it.
Publish(id) ==
  [s \in Subs |->
     IF ~subs[s].on THEN subs[s]
     ELSE IF Len(subs[s].chan) < Buffer THEN [subs[s] EXCEPT !.chan = Append(@, id)]
     ELSE [subs[s] EXCEPT !.lost = TRUE]]

Subscribe(s) ==
  /\ Up /\ ~subs[s].on
  /\ subs' = [subs EXCEPT ![s] = [Gone EXCEPT !.on = TRUE, !.since = Len(published)]]
  /\ UNCHANGED <<deliveryVars, published, emitter, content, committed>>

\* The client leaves: stop() takes the channel away and closes it.
Leave(s) ==
  /\ subs[s].on
  /\ subs' = [subs EXCEPT ![s] = Gone]
  /\ UNCHANGED <<deliveryVars, published, emitter, content, committed>>

Allowed(s, env) == env.queue = NoQueue \/ env.queue \in Tokens[s]

\* streamEvents takes one envelope and writes it, unless it is of a queue the
\* token does not allow.
Stream(s) ==
  /\ subs[s].chan # <<>>
  /\ LET id == Head(subs[s].chan)
     IN subs' = [subs EXCEPT ![s].chan = Tail(@),
                   ![s].got = IF Allowed(s, published[id]) THEN Append(@, id) ELSE @]
  /\ UNCHANGED <<deliveryVars, published, emitter, content, committed>>

-----------------------------------------------------------------------------
(* Notifier *)

Wants(r, env) == Webhooks[r] = {} \/ env.event \in Webhooks[r]

\* The receivers Deliveries returns a row for: none for a job event that its
\* queue, if still configured, does not subscribe to.
Route(env) ==
  IF \/ env.event \in ServiceEvents
     \/ env.queue \in DOMAIN Notify /\ env.event \in Notify[env.queue]
  THEN SetToSeq({r \in DOMAIN Webhooks : Wants(r, env)})
  ELSE <<>>

\* Something happens that is told: a job ends, the gate closes, a login works.
Begin(e) ==
  /\ Up /\ emitter[e].pc = "idle"
  /\ Len(published) + Cardinality({x \in Emitters : emitter[x].pc = "begun"}) < MaxEvents
  /\ \E env \in Envelopes : emitter' = [emitter EXCEPT ![e].pc = "begun", ![e].env = {env}]
  /\ UNCHANGED <<deliveryVars, published, content, committed, subs>>

\* Mutant: the send to a subscriber blocks.
DeliveriesBlocking(e) ==
  /\ emitter[e].pc = "begun"
  /\ \A s \in Subs : subs[s].on => Len(subs[s].chan) < Buffer
  /\ \E env \in emitter[e].env :
       /\ published' = Append(published, env)
       /\ emitter' = [emitter EXCEPT ![e].pc = "commit", ![e].id = Len(published'),
                                     ![e].to = Route(env)]
  /\ subs' = Publish(Len(published'))
  /\ UNCHANGED <<deliveryVars, content, committed>>

\* Deliveries: published first, then routed.
Deliveries(e) ==
  /\ emitter[e].pc = "begun"
  /\ \E env \in emitter[e].env :
       /\ published' = Append(published, env)
       /\ emitter' = [emitter EXCEPT ![e].pc = "commit", ![e].id = Len(published'),
                                     ![e].to = Route(env)]
  /\ subs' = Publish(Len(published'))
  /\ UNCHANGED <<deliveryVars, content, committed>>

\* EnqueueDeliveries or FinishWithDeliveries: all rows or none.
Commit(e) ==
  /\ emitter[e].pc = "commit"
  /\ Insert(Len(emitter[e].to))
  /\ content' = content \o [k \in DOMAIN emitter[e].to |-> <<emitter[e].id, emitter[e].to[k]>>]
  /\ committed' = committed \union {emitter[e].id}
  /\ emitter' = [emitter EXCEPT ![e] = IdleEmitter]
  /\ UNCHANGED <<sender, seen, tried, faults, published, subs>>

\* Mutant: a transaction that fails leaves its first row behind.
RollbackHalf(e) ==
  /\ emitter[e].pc = "commit" /\ emitter[e].to # <<>>
  /\ Insert(1)
  /\ content' = Append(content, <<emitter[e].id, Head(emitter[e].to)>>)
  /\ emitter' = [emitter EXCEPT ![e] = IdleEmitter]
  /\ UNCHANGED <<sender, seen, tried, faults, published, committed, subs>>

\* The transaction fails; the error is logged and the event is not sent.
Rollback(e) ==
  /\ emitter[e].pc = "commit"
  /\ emitter' = [emitter EXCEPT ![e] = IdleEmitter]
  /\ UNCHANGED <<deliveryVars, published, content, committed, subs>>

-----------------------------------------------------------------------------
\* The process dies with its goroutines and connections.
Crash ==
  /\ Die
  /\ emitter' = [e \in Emitters |-> IdleEmitter]
  /\ subs' = [s \in Subs |-> Gone]
  /\ UNCHANGED <<published, content, committed>>

Init ==
  /\ DeliveryInit
  /\ published = <<>> /\ content = <<>> /\ committed = {}
  /\ emitter = [e \in Emitters |-> IdleEmitter]
  /\ subs = [s \in Subs |-> Gone]

Emission(e) == Deliveries(e) \/ Commit(e) \/ Rollback(e)

Next ==
  \/ \E e \in Emitters : Begin(e) \/ Emission(e)
  \/ \E s \in Subs : Subscribe(s) \/ Stream(s) \/ Leave(s)
  \/ (Send \/ Tick \/ Start) /\ UNCHANGED eventVars
  \/ Crash

Spec == Init /\ [][Next]_vars

\* Goroutines are scheduled, the process is restarted, and time passes.  Nobody
\* has to read the live stream.
Fairness ==
  /\ \A e \in Emitters : WF_vars(Emission(e))
  /\ WF_vars(Send /\ UNCHANGED eventVars)
  /\ WF_vars((Tick \/ Start) /\ UNCHANGED eventVars)

FairSpec == Spec /\ Fairness

-----------------------------------------------------------------------------
(* Properties *)

TypeOK ==
  /\ DeliveryTypeOK
  /\ published \in Seq(Envelopes) /\ Len(published) <= MaxEvents
  /\ emitter \in [Emitters -> [pc : {"idle", "begun", "commit"}, env : SUBSET Envelopes,
                               id : EventIds \union {0}, to : Seq(DOMAIN Webhooks)]]
  /\ content \in Seq(EventIds \X DOMAIN Webhooks)
  /\ committed \subseteq EventIds
  /\ subs \in [Subs -> [on : BOOLEAN, chan : Seq(EventIds), got : Seq(EventIds),
                        since : EventIds \union {0}, lost : BOOLEAN]]

\* A client of the live stream that keeps up has, with what waits in its channel,
\* every event it may see that was published since it connected, once and in
\* order, however far behind the others are; one that fell behind has them
\* in order with gaps.
LiveStreamIsFaithful ==
  \A s \in Subs : subs[s].on =>
    LET mine == subs[s].got \o subs[s].chan
        May(S) == {id \in S : Allowed(s, published[id])}
        all  == May(subs[s].since + 1 .. Len(published))
    IN /\ \A k, l \in DOMAIN mine : k < l => mine[k] < mine[l]
       /\ IF subs[s].lost THEN ToSet(subs[s].got) \union May(ToSet(subs[s].chan)) \subseteq all
          ELSE ToSet(subs[s].got) \union May(ToSet(subs[s].chan)) = all

\* Who is owed event id: told of service events, and of job events their queue
\* subscribes to, as far as their own list wants them.
Owed(r, id) ==
  LET env == published[id]
  IN /\ Webhooks[r] # {} => env.event \in Webhooks[r]
     /\ env.event \notin ServiceEvents =>
          env.queue \in DOMAIN Notify /\ env.event \in Notify[env.queue]

\* The outbox holds one row for each receiver of each event whose transaction
\* was committed, and none of one that was rolled back or died half way.
OutboxIsExact ==
  /\ ToSet(content) = {p \in committed \X DOMAIN Webhooks : Owed(p[2], p[1])}
  /\ Len(content) = Cardinality(ToSet(content))
  /\ Len(content) = Cardinality({i \in Rows : outbox[i].state # "none"})

\* An emitter, be it the executor in finish or a request, is never held up by a
\* client that does not read.
EmissionEnds == \A e \in Emitters : emitter[e].pc # "idle" ~> emitter[e].pc = "idle"

Settled(r, id) ==
  \E i \in DOMAIN content : content[i] = <<id, r>> /\ outbox[i].state \in {"delivered", "dead"}

\* Every committed event is, for each receiver it is owed to, delivered or
\* given up in the end: neither a receiver that is down nor the retries of
\* others nor a restart keeps it waiting for ever.
EventSettles ==
  \A r \in DOMAIN Webhooks, id \in EventIds :
    (id \in committed /\ Owed(r, id)) ~> Settled(r, id)

=============================================================================
