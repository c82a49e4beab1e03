------------------------------ MODULE Delivery ------------------------------
(***************************************************************************)
(* The webhook sender (internal/webhook/sender.go) draining the outbox     *)
(* table (internal/store/outbox.go).  One goroutine claims a batch of due  *)
(* rows, posts them one by one and marks each; the process may die between *)
(* any two of these, and a mark may fail.  Time is counted in units of the *)
(* first backoff.  Who adds rows is in Events, which extends this module.  *)
(***************************************************************************)
EXTENDS Naturals, Sequences, SequencesExt, FiniteSets

CONSTANTS
  MaxRows,      \* bound: rows ever enqueued
  batchSize,
  Cap,          \* longest backoff
  RetryWindow,  \* webhook_retry_window
  MaxTries,     \* where maxAttempts stops counting: 1000 in the code
  MaxFaults     \* bound: process deaths and marks that fail

ASSUME DeliveryAssumptions ==
  /\ MaxRows \in Nat /\ MaxFaults \in Nat /\ MaxTries \in Nat \ {0}
  /\ batchSize \in Nat \ {0} /\ Cap \in Nat \ {0} /\ RetryWindow \in Nat \ {0}

Rows == 1 .. MaxRows

VARIABLES
  outbox,    \* the table: id -> [state, attempts, due]; due is the
             \* time left until next_at
  sender,    \* the goroutine: [pc, batch, ok]
  seen,      \* history: the rows whose event reached its receiver
  tried,     \* history: how long it was pending since its first failed attempt
             \* was recorded
  faults

deliveryVars == <<outbox, sender, seen, tried, faults>>

-----------------------------------------------------------------------------
(* backoff and maxAttempts *)

Lower(x, y) == IF x < y THEN x ELSE y

backoff(attempt) == Lower(2 ^ (attempt - 1), Cap)

Total[n \in Nat] == IF n = 0 THEN 0 ELSE Total[n - 1] + backoff(n)

\* The first n whose backoffs add up to the window, if there is one before MaxTries.
maxAttempts == CHOOSE n \in 1 .. MaxTries :
                 /\ n = MaxTries \/ Total[n] >= RetryWindow
                 /\ \A m \in 1 .. n - 1 : Total[m] < RetryWindow

-----------------------------------------------------------------------------
(* The table *)

NoRow == [state |-> "none", attempts |-> 0, due |-> 0]
New == [state |-> "pending", attempts |-> 0, due |-> 0]
Pending == {i \in Rows : outbox[i].state = "pending"}
Asleep == [pc |-> "down", batch |-> <<>>, ok |-> FALSE]

Sending(pc) == sender.pc = pc
Current == Head(sender.batch).id

\* insertDeliveries, in EnqueueDeliveries and FinishWithDeliveries: n rows,
\* in id order.
Insert(n) ==
  LET last == Cardinality({i \in Rows : outbox[i].state # "none"})
  IN outbox' = [i \in Rows |-> IF i \in last + 1 .. last + n THEN New ELSE outbox[i]]

\* Mutant: rows that gave up are claimed like pending ones.
DueOrDead == {i \in Rows : outbox[i].state \in {"pending", "dead"} /\ outbox[i].due = 0}

\* Mutant: the query leaves out the rows that have one attempt left.
DueBeforeLast == {i \in Pending : outbox[i].due = 0 /\ outbox[i].attempts + 1 < maxAttempts}

Due == {i \in Pending : outbox[i].due = 0}

\* ORDER BY id LIMIT batchSize.
Oldest(ids) ==
  /\ \A k, l \in DOMAIN ids : k < l => ids[k] < ids[l]
  /\ \A i \in Due \ ToSet(ids), k \in DOMAIN ids : ids[k] < i

\* ClaimDueDeliveries: the oldest due rows, as they are now.  Nothing changes in
\* the table, so a row claimed and not marked is claimed again.
Claim ==
  /\ Sending("claim")
  /\ Due # {}
  /\ \E ids \in [1 .. Lower(batchSize, Cardinality(Due)) -> Due] :
       /\ Oldest(ids)
       /\ sender' = [pc |-> "post", ok |-> FALSE,
                     batch |-> [k \in DOMAIN ids |-> [id |-> ids[k],
                                                      attempts |-> outbox[ids[k]].attempts]]]
  /\ UNCHANGED <<outbox, seen, tried, faults>>

\* post: the request may be lost, or arrive and its answer be an error, be lost,
\* or come in time.
Post ==
  /\ Sending("post")
  /\ \E arrives, ok \in BOOLEAN :
       /\ ok => arrives
       /\ seen' = IF arrives THEN seen \union {Current} ELSE seen
       /\ sender' = [sender EXCEPT !.pc = "mark", !.ok = ok]
  /\ UNCHANGED <<outbox, tried, faults>>

NextInBatch ==
  sender' = [pc |-> IF Len(sender.batch) = 1 THEN "claim" ELSE "post",
             batch |-> Tail(sender.batch), ok |-> FALSE]

\* Mutant: any answer at all counts as delivery.
MarkDeliveredAnyway ==
  /\ Sending("mark")
  /\ outbox' = [outbox EXCEPT ![Current].state = "delivered", ![Current].attempts = @ + 1]
  /\ NextInBatch
  /\ UNCHANGED <<seen, tried, faults>>

MarkDelivered ==
  /\ Sending("mark") /\ sender.ok
  /\ outbox' = [outbox EXCEPT ![Current].state = "delivered", ![Current].attempts = @ + 1]
  /\ NextInBatch
  /\ UNCHANGED <<seen, tried, faults>>

\* The attempts of the claimed copy decide whether the row is given up.
MarkDead ==
  /\ Sending("mark") /\ ~sender.ok
  /\ Head(sender.batch).attempts + 1 >= maxAttempts
  /\ outbox' = [outbox EXCEPT ![Current].state = "dead", ![Current].attempts = @ + 1]
  /\ NextInBatch
  /\ UNCHANGED <<seen, tried, faults>>

\* Mutant: the retry is due at once.
RescheduleAtOnce ==
  /\ Sending("mark") /\ ~sender.ok
  /\ Head(sender.batch).attempts + 1 < maxAttempts
  /\ outbox' = [outbox EXCEPT ![Current].attempts = @ + 1]
  /\ NextInBatch
  /\ UNCHANGED <<seen, tried, faults>>

RescheduleDelivery ==
  /\ Sending("mark") /\ ~sender.ok
  /\ Head(sender.batch).attempts + 1 < maxAttempts
  /\ outbox' = [outbox EXCEPT ![Current].attempts = @ + 1,
                              ![Current].due = backoff(Head(sender.batch).attempts + 1)]
  /\ NextInBatch
  /\ UNCHANGED <<seen, tried, faults>>

\* The write of any of the three fails, which is logged: the row stays as it was,
\* due at once, and the batch goes on.
MarkFails ==
  /\ Sending("mark")
  /\ faults < MaxFaults
  /\ faults' = faults + 1
  /\ NextInBatch
  /\ UNCHANGED <<outbox, seen, tried>>

Pass(row) == [row EXCEPT !.due = IF @ = 0 THEN 0 ELSE @ - 1]

\* One unit of time passes.
Tick ==
  /\ \E i \in Pending : outbox[i].due > 0
  /\ outbox' = [i \in Rows |-> IF i \in Pending THEN Pass(outbox[i]) ELSE outbox[i]]
  /\ tried' = [i \in Rows |-> IF i \in Pending /\ outbox[i].attempts > 0
                                THEN tried[i] + 1 ELSE tried[i]]
  /\ UNCHANGED <<sender, seen, faults>>

\* The process starts; it dies or is shut down.  Under a cancelled context the
\* mark fails as well, so both lose the batch and keep the table.
Start == Sending("down") /\ sender' = [Asleep EXCEPT !.pc = "claim"]
         /\ UNCHANGED <<outbox, seen, tried, faults>>

Die ==
  /\ ~Sending("down")
  /\ faults < MaxFaults
  /\ faults' = faults + 1
  /\ sender' = Asleep
  /\ UNCHANGED <<outbox, seen, tried>>

-----------------------------------------------------------------------------
DeliveryInit ==
  /\ outbox = [i \in Rows |-> NoRow]
  /\ sender = Asleep
  /\ seen = {}
  /\ tried = [i \in Rows |-> 0]
  /\ faults = 0

Mark == MarkDelivered \/ MarkDead \/ RescheduleDelivery \/ MarkFails
Send == Claim \/ Post \/ Mark

-----------------------------------------------------------------------------
(* Properties *)

DeliveryTypeOK ==
  /\ outbox \in [Rows -> [state : {"none", "pending", "delivered", "dead"},
                          attempts : Nat, due : Nat]]
  /\ sender \in [pc : {"down", "claim", "post", "mark"},
                 batch : Seq([id : Rows, attempts : Nat]), ok : BOOLEAN]
  /\ seen \subseteq Rows /\ tried \in [Rows -> Nat]
  /\ faults \in Nat

\* A row marked delivered was received, whatever died or was lost on the way:
\* delivery is at least once.
DeliveredWasReceived == \A i \in Rows : outbox[i].state = "delivered" => i \in seen

\* Nothing is posted again once it was marked: every row of a batch is still
\* pending when its turn comes, and the attempts claimed are those of the table.
BatchIsFresh ==
  \A k \in DOMAIN sender.batch :
    /\ outbox[sender.batch[k].id].state = "pending"
    /\ outbox[sender.batch[k].id].attempts = sender.batch[k].attempts

\* A receiver is given up on no earlier than the last backoff before the end of the
\* retry window, in time that really passed since the first failed attempt, unless
\* there were MaxTries of them: deaths of the process, marks that fail and rows that
\* wait behind others never shorten it (deliver, backoff, maxAttempts).
DeadWasTried ==
  \A i \in Rows : outbox[i].state = "dead" =>
    outbox[i].attempts >= MaxTries \/ tried[i] + backoff(maxAttempts) >= RetryWindow

-----------------------------------------------------------------------------
(* What the documentation claims and the code does not do *)

\* "A receiver that doesn't exist retries for 24 hours": the attempts span the window.
RetriedForWindow == \A i \in Rows : outbox[i].state = "dead" => tried[i] >= RetryWindow

=============================================================================
