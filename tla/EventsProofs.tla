---------------------------- MODULE EventsProofs ----------------------------
(***************************************************************************)
(* Proofs about Events and the sender of Delivery, for any number of       *)
(* emitters, receivers, subscribers, events and deaths of the process, and *)
(* any buffer, batch, cap, retry window and limit of attempts.             *)
(***************************************************************************)
EXTENDS Events, FiniteSetTheorems, SequenceTheorems, TLAPS

\* A batch is held from its claim to its last mark; its rows are as they were claimed,
\* each of them once; an answer that is good is of a post that arrived.
BatchInv ==
  /\ sender.pc \in {"post", "mark"} <=> sender.batch # <<>>
  /\ BatchIsFresh
  /\ \A k \in DOMAIN sender.batch : outbox[sender.batch[k].id].due = 0
  /\ \A k, l \in DOMAIN sender.batch : k # l => sender.batch[k].id # sender.batch[l].id
  /\ sender.ok => sender.pc = "mark" /\ Current \in seen

\* A row gives up when its attempts run out.
AttemptsInv ==
  /\ DeliveredWasReceived
  /\ \A i \in Rows : outbox[i].state = "dead" => outbox[i].attempts >= maxAttempts

\* A row that waits has, with the time left until its next attempt, been tried for the
\* backoffs of its attempts; one that gave up, for all but the last of them.
Waited(r, t) ==
  /\ r.state = "pending" => t + r.due >= Total[r.attempts]
  /\ r.state = "dead" => r.attempts # 0 /\ t >= Total[r.attempts - 1]
TimeInv == \A i \in Rows : Waited(outbox[i], tried[i])

\* An event has one emitter from its publication to its commit, and MaxEvents is kept
\* for those that have begun.
Begun == {e \in Emitters : emitter[e].pc = "begun"}
EmitInv ==
  /\ Len(published) + Cardinality(Begun) <= MaxEvents
  /\ committed \subseteq 1 .. Len(published)
  /\ \A e \in Emitters : emitter[e].pc = "commit" =>
       /\ emitter[e].id \in (1 .. Len(published)) \ committed
       /\ emitter[e].to = Route(published[emitter[e].id])
  /\ \A e, f \in Emitters : emitter[e].pc = "commit" /\ emitter[f].pc = "commit"
                              /\ emitter[e].id = emitter[f].id => e = f

\* Rows are numbered as they are inserted.
Used == {i \in Rows : outbox[i].state # "none"}
RowsInv == OutboxIsExact /\ Used = 1 .. Len(content)

\* A subscriber has received its part of what was published since it came, in order,
\* and what waits in its channel comes after that; unless it lost an event, nothing
\* it may see is missing.  Without a subscriber there is no channel.
Inc(q) == \A k, l \in DOMAIN q : k < l => q[k] < q[l]
Before(S, T) == \A x \in S, y \in T : x < y
Visible(s, S, pub) == {id \in S : Allowed(s, pub[id])}
Sub == [on : BOOLEAN, chan : Seq(EventIds), got : Seq(EventIds),
        since : EventIds \union {0}, lost : BOOLEAN]
Subscriber(s, u, pub) ==
  /\ ~u.on => u = Gone
  /\ u.since <= Len(pub) /\ ToSet(u.chan) \subseteq u.since + 1 .. Len(pub)
  /\ Inc(u.got) /\ Inc(u.chan) /\ Before(ToSet(u.got), ToSet(u.chan))
  /\ u.on => LET mine == ToSet(u.got) \union Visible(s, ToSet(u.chan), pub)
                 all == Visible(s, u.since + 1 .. Len(pub), pub)
             IN mine \subseteq all /\ (~u.lost => mine = all)
StreamInv == subs \in [Subs -> Sub] /\ \A s \in Subs : Subscriber(s, subs[s], published)

-----------------------------------------------------------------------------
(* Natural numbers *)

\* A set of numbers that is not empty has a least one.
LEMMA Least ==
  ASSUME NEW T \in SUBSET Nat, T # {}
  PROVE  \E x \in T : \A y \in T : x <= y
<1> DEFINE R == OpToRel(<, Nat)
<1>1. IsWellFoundedOn(R, Nat)
  BY NatLessThanWellFounded
<1>2. \A x, y \in Nat : x < y => <<x, y>> \in R
  BY DEF OpToRel
<1> HIDE DEF R
<1>3. PICK x \in T : \A y \in T : ~(<<y, x>> \in R)
  BY <1>1, WFMin
<1>4. ASSUME NEW y \in T PROVE x <= y
  <2>1. x \in Nat /\ y \in Nat /\ ~(<<y, x>> \in R)
    BY <1>3
  <2>2. ~(y < x)
    BY <1>2, <2>1
  <2> QED BY <2>1, <2>2
<1> QED BY <1>4

\* Induction, for a set of numbers.
LEMMA Induct ==
  ASSUME NEW T \in SUBSET Nat, 0 \in T, \A n \in T : n + 1 \in T
  PROVE  T = Nat
<1> SUFFICES ASSUME Nat \ T # {} PROVE FALSE
  OBVIOUS
<1>1. PICK x \in Nat \ T : \A y \in Nat \ T : x <= y
  BY Least
<1>2. x # 0 /\ x - 1 \in Nat
  BY <1>1
<1>3. x - 1 \in T
  BY <1>1, <1>2
<1> QED BY <1>1, <1>2, <1>3

\* Powers of two are positive.
LEMMA PowersPositive ==
  ASSUME NEW k \in Nat
  PROVE  2 ^ k \in Nat \ {0}
<1>1. IsFiniteSet(1 .. k) /\ Cardinality(1 .. k) = k
  BY FS_Interval
<1>2. IsFiniteSet(SUBSET (1 .. k)) /\ Cardinality(SUBSET (1 .. k)) = 2 ^ k
  BY <1>1, FS_SUBSET
<1>3. Cardinality(SUBSET (1 .. k)) \in Nat
  BY <1>2, FS_CardinalityType
<1>4. SUBSET (1 .. k) # {}
  OBVIOUS
<1>5. Cardinality(SUBSET (1 .. k)) # 0
  BY <1>2, <1>4, FS_EmptySet
<1> QED BY <1>2, <1>3, <1>5

-----------------------------------------------------------------------------
(* backoff and maxAttempts *)

\* A receiver is given a pause between any two attempts, never longer than the cap.
LEMMA BackoffBounded ==
  ASSUME NEW n \in Nat \ {0}
  PROVE  backoff(n) \in 1 .. Cap
<1>1. n - 1 \in Nat
  OBVIOUS
<1> DEFINE p == 2 ^ (n - 1)
<1>2. p \in Nat \ {0}
  BY <1>1, PowersPositive
<1> HIDE DEF p
<1>3. backoff(n) = Lower(p, Cap)
  BY DEF backoff, p
<1> QED BY <1>2, <1>3, DeliveryAssumptions DEF Lower

\* The sums of a sequence of numbers up to n; CumSum is the equation Total solves.
CumSum(g, b, n) == \A k \in 0 .. n : g[k] = IF k = 0 THEN 0 ELSE g[k - 1] + b[k]
Sums(b, n) == {g \in [0 .. n -> Nat] : CumSum(g, b, n)}

\* There are such sums up to any n.
LEMMA SumsExist ==
  ASSUME NEW b \in [Nat -> Nat]
  PROVE  \A n \in Nat : Sums(b, n) # {}
<1> DEFINE T == {n \in Nat : Sums(b, n) # {}}
<1>1. 0 \in T
  <2>1. [k \in 0 .. 0 |-> 0] \in Sums(b, 0)
    BY DEF Sums, CumSum
  <2> QED BY <2>1
<1>2. ASSUME NEW n \in T PROVE n + 1 \in T
  <2>1. PICK g : g \in Sums(b, n)
    BY <1>2
  <2>2. n \in Nat /\ g \in [0 .. n -> Nat] /\ CumSum(g, b, n)
    BY <2>1 DEF Sums
  <2> DEFINE h == [k \in 0 .. n + 1 |-> IF k = n + 1 THEN g[n] + b[n + 1] ELSE g[k]]
  <2>3. n \in 0 .. n /\ g[n] \in Nat /\ b[n + 1] \in Nat
    BY <2>2
  <2>4. \A k \in 0 .. n + 1 : h[k] = IF k = n + 1 THEN g[n] + b[n + 1] ELSE g[k]
    OBVIOUS
  <2>5. h \in [0 .. n + 1 -> Nat]
    <3>1. \A k \in 0 .. n + 1 : h[k] \in Nat
      <4> TAKE k \in 0 .. n + 1
      <4> HIDE DEF h
      <4>1. CASE k = n + 1
        <5>1. h[k] = g[n] + b[n + 1]
          BY <2>4, <4>1
        <5> QED BY <2>3, <5>1
      <4>2. CASE k # n + 1
        <5>1. k \in 0 .. n /\ h[k] = g[k]
          BY <2>2, <2>4, <4>2
        <5> QED BY <2>2, <5>1
      <4> QED BY <4>1, <4>2
    <3> QED BY <3>1
  <2> HIDE DEF h
  <2>6. ASSUME NEW k \in 0 .. n + 1 PROVE h[k] = IF k = 0 THEN 0 ELSE h[k - 1] + b[k]
    <3>1. CASE k = n + 1
      <4>1. k # 0 /\ k - 1 = n /\ n \in 0 .. n + 1 /\ n # n + 1
        BY <2>2, <3>1
      <4>2. h[k] = g[n] + b[n + 1] /\ h[n] = g[n]
        BY <2>4, <3>1, <4>1
      <4> QED BY <3>1, <4>1, <4>2
    <3>2. CASE k # n + 1
      <4>1. k \in 0 .. n /\ (k # 0 => k - 1 \in 0 .. n + 1 /\ k - 1 # n + 1)
        BY <2>2, <3>2
      <4>2. h[k] = g[k] /\ (k # 0 => h[k - 1] = g[k - 1])
        BY <2>4, <3>2, <4>1
      <4> QED BY <2>2, <4>1, <4>2 DEF CumSum
    <3> QED BY <3>1, <3>2
  <2>7. h \in Sums(b, n + 1)
    BY <2>5, <2>6 DEF Sums, CumSum
  <2> QED BY <2>2, <2>7
<1> HIDE DEF T
<1>3. T = Nat
  BY <1>1, <1>2, Induct DEF T
<1> QED BY <1>3 DEF T

\* And they agree.
LEMMA SumsAgree ==
  ASSUME NEW b \in [Nat -> Nat], NEW n \in Nat, NEW m \in Nat, n <= m,
         NEW g \in Sums(b, n), NEW h \in Sums(b, m)
  PROVE  \A k \in 0 .. n : g[k] = h[k]
<1> DEFINE T == {k \in Nat : k <= n => g[k] = h[k]}
<1>0. CumSum(g, b, n) /\ CumSum(h, b, m)
  BY DEF Sums
<1>1. 0 \in T
  BY <1>0 DEF CumSum
<1>2. ASSUME NEW k \in T PROVE k + 1 \in T
  <2>1. SUFFICES ASSUME k + 1 <= n PROVE g[k + 1] = h[k + 1]
    OBVIOUS
  <2>2. k \in Nat /\ g[k] = h[k]
    BY <2>1
  <2>3. g[k + 1] = g[k] + b[k + 1] /\ h[k + 1] = h[k] + b[k + 1]
    BY <1>0, <2>1, <2>2 DEF CumSum
  <2> QED BY <2>2, <2>3
<1> HIDE DEF T
<1>3. T = Nat
  BY <1>1, <1>2, Induct DEF T
<1> QED BY <1>3 DEF T

\* So the equation of Total has a solution.
LEMMA SumExists ==
  ASSUME NEW b \in [Nat -> Nat]
  PROVE  \E f \in [Nat -> Nat] : f = [n \in Nat |-> IF n = 0 THEN 0 ELSE f[n - 1] + b[n]]
<1> DEFINE G(n) == CHOOSE g : g \in Sums(b, n)
           f == [n \in Nat |-> G(n)[n]]
<1>1. \A n \in Nat : G(n) \in Sums(b, n)
  BY SumsExist
<1> HIDE DEF G
<1>2. \A n \in Nat : f[n] \in Nat
  <2> TAKE n \in Nat
  <2>1. G(n) \in [0 .. n -> Nat]
    BY <1>1 DEF Sums
  <2> QED BY <2>1
<1>3. ASSUME NEW n \in Nat PROVE f[n] = IF n = 0 THEN 0 ELSE f[n - 1] + b[n]
  <2>1. G(n) \in Sums(b, n) /\ f[n] = G(n)[n]
    BY <1>1
  <2>2. G(n)[n] = IF n = 0 THEN 0 ELSE G(n)[n - 1] + b[n]
    BY <2>1 DEF Sums, CumSum
  <2>3. CASE n = 0
    BY <2>1, <2>2, <2>3
  <2>4. CASE n # 0
    <3>1. n - 1 \in Nat /\ n - 1 <= n /\ n - 1 \in 0 .. n - 1
      BY <2>4
    <3>2. G(n - 1) \in Sums(b, n - 1) /\ f[n - 1] = G(n - 1)[n - 1]
      BY <1>1, <3>1
    <3>3. G(n - 1)[n - 1] = G(n)[n - 1]
      BY <2>1, <3>1, <3>2, SumsAgree
    <3> QED BY <2>1, <2>2, <2>4, <3>2, <3>3
  <2> QED BY <2>3, <2>4
<1>4. f \in [Nat -> Nat] /\ f = [n \in Nat |-> IF n = 0 THEN 0 ELSE f[n - 1] + b[n]]
  BY <1>2, <1>3
<1> QED BY <1>4

\* What Total computes.
LEMMA TotalDef ==
  ASSUME NEW n \in Nat
  PROVE  Total[n] = IF n = 0 THEN 0 ELSE Total[n - 1] + backoff(n)
<1> DEFINE b == [k \in Nat |-> IF k = 0 THEN 0 ELSE backoff(k)]
<1>1. b \in [Nat -> Nat]
  <2>1. \A k \in Nat : b[k] \in Nat
    BY BackoffBounded, DeliveryAssumptions
  <2> QED BY <2>1
<1>2. \A k \in Nat \ {0} : b[k] = backoff(k)
  OBVIOUS
<1> HIDE DEF b
<1>3. PICK f : f = [k \in Nat |-> IF k = 0 THEN 0 ELSE f[k - 1] + b[k]]
  BY <1>1, SumExists
<1>4. f = [k \in Nat |-> IF k = 0 THEN 0 ELSE f[k - 1] + backoff(k)]
  BY <1>2, <1>3
<1>5. Total = [k \in Nat |-> IF k = 0 THEN 0 ELSE Total[k - 1] + backoff(k)]
  BY <1>4 DEF Total
<1> QED BY <1>5

\* Every attempt adds to it.
LEMMA TotalGrows == \A n \in Nat : Total[n] \in Nat /\ Total[n] >= n
<1> DEFINE T == {n \in Nat : Total[n] \in Nat /\ Total[n] >= n}
<1>1. 0 \in T
  BY TotalDef
<1>2. ASSUME NEW n \in T PROVE n + 1 \in T
  <2>1. n + 1 \in Nat \ {0} /\ (n + 1) - 1 = n
    OBVIOUS
  <2>2. Total[n + 1] = Total[n] + backoff(n + 1)
    BY <2>1, TotalDef
  <2>3. backoff(n + 1) \in 1 .. Cap
    BY <2>1, BackoffBounded
  <2>4. backoff(n + 1) \in Nat /\ backoff(n + 1) >= 1
    BY <2>3, DeliveryAssumptions
  <2> QED BY <2>1, <2>2, <2>4
<1> HIDE DEF T
<1>3. T = Nat
  BY <1>1, <1>2, Induct DEF T
<1> QED BY <1>3 DEF T

\* So more attempts take no less time.
LEMMA TotalMonotone ==
  ASSUME NEW n \in Nat, NEW m \in Nat, n <= m
  PROVE  Total[n] <= Total[m]
<1> DEFINE T == {k \in Nat : Total[n] <= Total[n + k]}
<1>1. 0 \in T
  BY TotalGrows
<1>2. ASSUME NEW k \in T PROVE k + 1 \in T
  <2>1. n + k \in Nat /\ n + (k + 1) \in Nat \ {0} /\ (n + (k + 1)) - 1 = n + k
    OBVIOUS
  <2>2. Total[n + (k + 1)] = Total[n + k] + backoff(n + (k + 1))
    BY <2>1, TotalDef
  <2>3. backoff(n + (k + 1)) \in Nat
    BY <2>1, BackoffBounded, DeliveryAssumptions
  <2>4. Total[n] \in Nat /\ Total[n + k] \in Nat
    BY <2>1, TotalGrows
  <2> QED BY <2>1, <2>2, <2>3, <2>4
<1> HIDE DEF T
<1>3. T = Nat
  BY <1>1, <1>2, Induct DEF T
<1>4. m - n \in Nat /\ n + (m - n) = m
  OBVIOUS
<1> QED BY <1>3, <1>4 DEF T

\* maxAttempts fills the window unless it is where counting stops.
LEMMA MaxAttempts ==
  /\ maxAttempts \in 1 .. MaxTries
  /\ maxAttempts = MaxTries \/ Total[maxAttempts] >= RetryWindow
<1> DEFINE T == {n \in 1 .. MaxTries : n = MaxTries \/ Total[n] >= RetryWindow}
<1>1. T \in SUBSET Nat /\ T # {}
  <2>1. MaxTries \in T
    BY DeliveryAssumptions
  <2> QED BY <2>1, DeliveryAssumptions
<1>2. PICK n \in T : \A y \in T : n <= y
  BY <1>1, Least
<1>3. \A m \in 1 .. n - 1 : Total[m] < RetryWindow
  <2> TAKE m \in 1 .. n - 1
  <2>1. n \in 1 .. MaxTries /\ m \in 1 .. MaxTries /\ ~(n <= m)
    BY DeliveryAssumptions
  <2>2. m \notin T
    BY <1>2, <2>1
  <2>3. Total[m] \in Nat
    BY <2>1, TotalGrows, DeliveryAssumptions
  <2> QED BY <2>1, <2>2, <2>3, DeliveryAssumptions
<1>4. n \in 1 .. MaxTries /\ (n = MaxTries \/ Total[n] >= RetryWindow)
  OBVIOUS
<1> QED BY <1>3, <1>4 DEF maxAttempts

-----------------------------------------------------------------------------
(* The sender *)

OutboxRow == [state : {"none", "pending", "delivered", "dead"}, attempts : Nat, due : Nat]
Item == [id : Rows, attempts : Nat]
SendInv == DeliveryTypeOK /\ BatchInv /\ AttemptsInv /\ TimeInv

\* The row whose turn it is.
LEMMA CurrentRow ==
  ASSUME SendInv, sender.pc \in {"post", "mark"}
  PROVE  /\ sender.batch \in Seq(Item) /\ sender.batch # <<>> /\ 1 \in DOMAIN sender.batch
         /\ Head(sender.batch) = sender.batch[1] /\ Current = sender.batch[1].id
         /\ Current \in Rows /\ outbox[Current].state = "pending"
         /\ outbox[Current].attempts = Head(sender.batch).attempts /\ outbox[Current].due = 0
<1>1. sender.batch \in Seq(Item) /\ sender.batch # <<>>
  BY DEF SendInv, DeliveryTypeOK, BatchInv, Item
<1>2. Len(sender.batch) \in Nat \ {0} /\ DOMAIN sender.batch = 1 .. Len(sender.batch)
  BY <1>1, EmptySeq, LenProperties
<1>3. 1 \in DOMAIN sender.batch
  BY <1>2
<1>4. sender.batch[1] \in Item
  BY <1>1, <1>2, <1>3, ElementOfSeq
<1>5. Head(sender.batch) = sender.batch[1] /\ Current = sender.batch[1].id
  BY <1>1 DEF Current
<1>6. Current \in Rows
  BY <1>4, <1>5 DEF Item
<1>7. outbox[sender.batch[1].id].state = "pending"
      /\ outbox[sender.batch[1].id].attempts = sender.batch[1].attempts
      /\ outbox[sender.batch[1].id].due = 0
  BY <1>3 DEF SendInv, BatchInv, BatchIsFresh
<1> QED BY <1>1, <1>3, <1>5, <1>6, <1>7

\* A batch is claimed from rows that are pending, as they are, in the order of ids.
LEMMA ClaimStep ==
  ASSUME SendInv, Claim
  PROVE  SendInv'
<1>1. PICK ids \in [1 .. Lower(batchSize, Cardinality(Due)) -> Due] :
        /\ Oldest(ids)
        /\ sender' = [pc |-> "post", ok |-> FALSE,
                      batch |-> [k \in DOMAIN ids |-> [id |-> ids[k],
                                                       attempts |-> outbox[ids[k]].attempts]]]
  BY DEF Claim
<1> DEFINE n == Lower(batchSize, Cardinality(Due))
           b == [k \in DOMAIN ids |-> [id |-> ids[k], attempts |-> outbox[ids[k]].attempts]]
<1>2. n \in Nat \ {0}
  <2>1. IsFiniteSet(Rows)
    BY FS_Interval, DeliveryAssumptions DEF Rows
  <2>2. Due \in SUBSET Rows /\ Due # {}
    BY DEF Due, Pending, Claim
  <2>3. IsFiniteSet(Due)
    BY <2>1, <2>2, FS_Subset
  <2>4. Cardinality(Due) \in Nat /\ Cardinality(Due) # 0
    BY <2>2, <2>3, FS_CardinalityType, FS_EmptySet
  <2> QED BY <2>4, DeliveryAssumptions DEF Lower
<1> HIDE DEF n
<1>3. DOMAIN ids = 1 .. n /\ \A k \in 1 .. n : ids[k] \in Due
  BY <1>1 DEF n
<1>4. \A i \in Due : /\ i \in Rows /\ outbox[i].state = "pending" /\ outbox[i].attempts \in Nat
                     /\ outbox[i].due = 0
  BY DEF Due, Pending, SendInv, DeliveryTypeOK
<1>5. b \in [1 .. n -> Item] /\ DOMAIN b = 1 .. n
  BY <1>3, <1>4 DEF Item
<1>6. \A k \in 1 .. n : b[k].id = ids[k] /\ b[k].attempts = outbox[ids[k]].attempts
  BY <1>3
<1> HIDE DEF b
<1>7. sender' = [pc |-> "post", ok |-> FALSE, batch |-> b]
  BY <1>1 DEF b
<1>8. b \in Seq(Item) /\ b # <<>>
  <2>1. b \in Seq(Item)
    BY <1>2, <1>5, SeqDef
  <2>2. 1 \in DOMAIN b
    BY <1>2, <1>5
  <2>3. DOMAIN << >> = {}
    OBVIOUS
  <2> QED BY <2>1, <2>2, <2>3
<1>9. UNCHANGED <<outbox, seen, tried, faults>>
  BY DEF Claim
<1>10. DeliveryTypeOK'
  BY <1>7, <1>8, <1>9 DEF SendInv, DeliveryTypeOK, Item
<1>11. BatchIsFresh'
  BY <1>3, <1>4, <1>5, <1>6, <1>7, <1>9 DEF BatchIsFresh
<1>12. \A k, l \in 1 .. n : k # l => ids[k] # ids[l]
  <2> TAKE k, l \in 1 .. n
  <2>1. k < l => ids[k] < ids[l]
    BY <1>1, <1>3 DEF Oldest
  <2>2. l < k => ids[l] < ids[k]
    BY <1>1, <1>3 DEF Oldest
  <2>3. ids[k] \in Nat /\ ids[l] \in Nat /\ k \in Nat /\ l \in Nat
    BY <1>2, <1>3, <1>4, DeliveryAssumptions DEF Rows
  <2> QED BY <2>1, <2>2, <2>3
<1>13. BatchInv'
  <2>1. /\ (sender').pc = "post" /\ (sender').batch = b /\ (sender').ok = FALSE
    BY <1>7
  <2>2. \A k, l \in 1 .. n : k # l => b[k].id # b[l].id
    BY <1>6, <1>12
  <2>3. \A k \in 1 .. n : outbox'[b[k].id].due = 0
    BY <1>3, <1>4, <1>6, <1>9
  <2> QED BY <1>5, <1>8, <1>11, <2>1, <2>2, <2>3 DEF BatchInv
<1>14. AttemptsInv'
  BY <1>7, <1>9 DEF SendInv, AttemptsInv, DeliveredWasReceived
<1>15. TimeInv'
  BY <1>9 DEF SendInv, TimeInv
<1> QED BY <1>10, <1>13, <1>14, <1>15 DEF SendInv

\* A post is counted, and a good answer means that it arrived.
LEMMA PostStep ==
  ASSUME SendInv, Post
  PROVE  SendInv'
<1>0. sender.pc = "post"
  BY DEF Post, Sending
<1>1. PICK arrives, ok \in BOOLEAN :
        /\ ok => arrives
        /\ seen' = IF arrives THEN seen \union {Current} ELSE seen
        /\ sender' = [sender EXCEPT !.pc = "mark", !.ok = ok]
  BY DEF Post
<1>2. UNCHANGED <<outbox, tried, faults>>
  BY DEF Post
<1>3. Current \in Rows /\ sender.batch # <<>>
  BY <1>0, CurrentRow
<1>4. /\ (sender').pc = "mark" /\ (sender').batch = sender.batch /\ (sender').ok = ok
      /\ sender' \in [pc : {"down", "claim", "post", "mark"}, batch : Seq(Item), ok : BOOLEAN]
  BY <1>1 DEF SendInv, DeliveryTypeOK, Item
<1>5. Current' = Current
  BY <1>4 DEF Current
<1>8. DeliveryTypeOK'
  BY <1>1, <1>2, <1>3, <1>4 DEF SendInv, DeliveryTypeOK, Item
<1>9. BatchInv'
  <2>1. BatchIsFresh'
    BY <1>2, <1>4 DEF SendInv, BatchInv, BatchIsFresh
  <2>2. ok => Current \in seen'
    BY <1>1
  <2> QED BY <1>2, <1>3, <1>4, <1>5, <2>1, <2>2 DEF SendInv, BatchInv
<1>10. AttemptsInv'
  <2>1. seen \subseteq seen'
    BY <1>1
  <2> QED BY <1>2, <2>1 DEF SendInv, AttemptsInv, DeliveredWasReceived
<1>11. TimeInv'
  BY <1>2 DEF SendInv, TimeInv
<1> QED BY <1>8, <1>9, <1>10, <1>11 DEF SendInv

\* A mark writes one row, which leaves the batch.
LEMMA Marked ==
  ASSUME SendInv, sender.pc = "mark", NEW r \in OutboxRow,
         outbox' = [outbox EXCEPT ![Current] = r], NextInBatch, UNCHANGED <<seen, tried>>,
         faults' \in Nat, r.state = "delivered" => sender.ok,
         r.state = "dead" => r.attempts >= maxAttempts, Waited(r, tried[Current])
  PROVE  SendInv'
<1> DEFINE b == sender.batch
<1>1. /\ b \in Seq(Item) /\ b # <<>> /\ Current = b[1].id /\ Current \in Rows
      /\ outbox[Current].state = "pending"
  BY CurrentRow
<1>2. /\ Tail(b) \in Seq(Item) /\ Len(Tail(b)) = Len(b) - 1
      /\ \A k \in 1 .. Len(Tail(b)) : Tail(b)[k] = b[k + 1]
  BY <1>1, HeadTailProperties
<1>3. /\ Len(b) \in Nat \ {0} /\ DOMAIN b = 1 .. Len(b) /\ DOMAIN Tail(b) = 1 .. Len(Tail(b))
      /\ (Tail(b) # <<>> => Len(Tail(b)) \in Nat \ {0}) /\ Len(Tail(b)) \in Nat
  BY <1>1, <1>2, EmptySeq, LenProperties
<1>4. /\ (sender').pc = (IF Len(b) = 1 THEN "claim" ELSE "post") /\ (sender').batch = Tail(b)
      /\ (sender').ok = FALSE
  BY DEF NextInBatch
<1>5. outbox \in [Rows -> OutboxRow]
  BY DEF SendInv, DeliveryTypeOK, OutboxRow
<1>6. outbox' \in [Rows -> OutboxRow] /\ \A i \in Rows : outbox'[i] = IF i = Current THEN r ELSE outbox[i]
  BY <1>1, <1>5
<1>7. DeliveryTypeOK'
  <2>1. sender' \in [pc : {"down", "claim", "post", "mark"}, batch : Seq(Item), ok : BOOLEAN]
    BY <1>2 DEF NextInBatch
  <2> QED BY <1>6, <2>1 DEF SendInv, DeliveryTypeOK, OutboxRow, Item
<1>8. Len(b) = 1 <=> Tail(b) = <<>>
  <2>1. Tail(b) = <<>> => Len(Tail(b)) = 0
    BY EmptySeq
  <2> QED BY <1>2, <1>3, <2>1
<1>9. \A k \in DOMAIN Tail(b) : /\ k + 1 \in DOMAIN b /\ k + 1 # 1 /\ Tail(b)[k] = b[k + 1]
                                /\ b[k + 1].id \in Rows /\ b[k + 1].id # Current
  <2> TAKE k \in DOMAIN Tail(b)
  <2>1. k + 1 \in 1 .. Len(b) /\ k + 1 # 1 /\ Tail(b)[k] = b[k + 1] /\ 1 \in 1 .. Len(b)
    BY <1>2, <1>3
  <2>2. b[k + 1] \in Item
    BY <1>1, <2>1, ElementOfSeq
  <2>3. b[k + 1].id # b[1].id
    BY <1>3, <2>1 DEF SendInv, BatchInv
  <2> QED BY <1>1, <1>3, <2>1, <2>2, <2>3 DEF Item
<1>10. BatchInv'
  <2>1. BatchIsFresh'
    <3> SUFFICES ASSUME NEW k \in DOMAIN Tail(b)
                 PROVE  /\ outbox'[Tail(b)[k].id].state = "pending"
                        /\ outbox'[Tail(b)[k].id].attempts = Tail(b)[k].attempts
      BY <1>4 DEF BatchIsFresh
    <3>1. outbox'[Tail(b)[k].id] = outbox[b[k + 1].id]
      BY <1>6, <1>9
    <3> QED BY <1>9, <3>1 DEF SendInv, BatchInv, BatchIsFresh
  <2>2. \A k, l \in DOMAIN Tail(b) : k # l => Tail(b)[k].id # Tail(b)[l].id
    <3> TAKE k, l \in DOMAIN Tail(b)
    <3>1. k # l => k + 1 # l + 1
      BY <1>3
    <3> QED BY <1>9, <3>1 DEF SendInv, BatchInv
  <2>3. \A k \in DOMAIN Tail(b) : outbox'[Tail(b)[k].id].due = 0
    BY <1>6, <1>9 DEF SendInv, BatchInv
  <2> HIDE DEF b
  <2> QED BY <1>4, <1>8, <2>1, <2>2, <2>3 DEF BatchInv
<1>11. AttemptsInv'
  <2>3. sender.ok => Current \in seen
    BY DEF SendInv, BatchInv
  <2>4. \A i \in Rows : outbox'[i].state = "delivered" => i \in seen
    BY <1>6, <2>3 DEF SendInv, AttemptsInv, DeliveredWasReceived
  <2>5. \A i \in Rows : outbox'[i].state = "dead" => outbox'[i].attempts >= maxAttempts
    BY <1>6 DEF SendInv, AttemptsInv
  <2> QED BY <2>4, <2>5 DEF AttemptsInv, DeliveredWasReceived
<1>12. TimeInv'
  BY <1>6 DEF SendInv, TimeInv
<1> QED BY <1>7, <1>10, <1>11, <1>12 DEF SendInv

\* The attempt that is marked now is the last or has its backoff ahead.
LEMMA MarkedInTime ==
  ASSUME SendInv, sender.pc = "mark"
  PROVE  LET a == outbox[Current].attempts
         IN /\ a \in Nat /\ tried[Current] \in Nat /\ tried[Current] >= Total[a]
            /\ backoff(a + 1) \in Nat /\ tried[Current] + backoff(a + 1) >= Total[a + 1]
<1>1. Current \in Rows /\ outbox[Current].state = "pending" /\ outbox[Current].due = 0
  BY CurrentRow
<1> DEFINE a == outbox[Current].attempts
<1>2. a \in Nat /\ tried[Current] \in Nat
  BY <1>1 DEF SendInv, DeliveryTypeOK
<1>3. tried[Current] + 0 >= Total[a]
  BY <1>1 DEF SendInv, TimeInv, Waited
<1> HIDE DEF a
<1>4. a + 1 \in Nat \ {0} /\ (a + 1) - 1 = a
  BY <1>2
<1>5. Total[a + 1] = Total[a] + backoff(a + 1)
  BY <1>4, TotalDef
<1>6. backoff(a + 1) \in Nat /\ Total[a] \in Nat
  BY <1>2, <1>4, BackoffBounded, TotalGrows, DeliveryAssumptions
<1>7. tried[Current] >= Total[a] /\ tried[Current] + backoff(a + 1) >= Total[a + 1]
  BY <1>2, <1>3, <1>5, <1>6
<1> QED BY <1>2, <1>6, <1>7 DEF a

\* Whichever way a post is marked.
LEMMA MarkStep ==
  ASSUME SendInv, Mark
  PROVE  SendInv'
<1>0. /\ sender.pc = "mark" /\ NextInBatch /\ UNCHANGED <<seen, tried>> /\ faults' \in Nat
  BY DEF Mark, MarkDelivered, MarkDead, RescheduleDelivery, MarkFails, Sending, SendInv, DeliveryTypeOK
<1>1. /\ Current \in Rows /\ outbox[Current].state = "pending"
      /\ outbox[Current].attempts = Head(sender.batch).attempts
  BY <1>0, CurrentRow
<1>2. outbox \in [Rows -> OutboxRow] /\ outbox[Current] \in OutboxRow
  BY <1>1 DEF SendInv, DeliveryTypeOK, OutboxRow
<1> DEFINE a == outbox[Current].attempts
<1>3. /\ a + 1 \in Nat \ {0} /\ (a + 1) - 1 = a /\ tried[Current] >= Total[a]
      /\ backoff(a + 1) \in Nat /\ tried[Current] + backoff(a + 1) >= Total[a + 1]
  BY <1>0, MarkedInTime
<1>4. CASE MarkDelivered
  <2> DEFINE r == [outbox[Current] EXCEPT !.state = "delivered", !.attempts = @ + 1]
  <2>1. r \in OutboxRow /\ r.state = "delivered" /\ r.attempts = a + 1
    BY <1>2, <1>3 DEF OutboxRow
  <2>2. outbox' = [outbox EXCEPT ![Current] = r] /\ sender.ok
    BY <1>2, <1>4 DEF MarkDelivered
  <2> HIDE DEF r
  <2>3. Waited(r, tried[Current])
    BY <2>1 DEF Waited
  <2> QED BY <1>0, <2>1, <2>2, <2>3, Marked
<1>5. CASE MarkDead
  <2> DEFINE r == [outbox[Current] EXCEPT !.state = "dead", !.attempts = @ + 1]
  <2>1. r \in OutboxRow /\ r.state = "dead" /\ r.attempts = a + 1
    BY <1>2, <1>3 DEF OutboxRow
  <2>2. outbox' = [outbox EXCEPT ![Current] = r]
    BY <1>2, <1>5 DEF MarkDead
  <2>3. r.attempts >= maxAttempts
    BY <1>1, <1>5, <2>1 DEF MarkDead
  <2> HIDE DEF r
  <2>4. Waited(r, tried[Current])
    BY <1>3, <2>1 DEF Waited
  <2> QED BY <1>0, <2>1, <2>2, <2>3, <2>4, Marked
<1>6. CASE RescheduleDelivery
  <2> DEFINE d == backoff(a + 1)
             r == [outbox[Current] EXCEPT !.attempts = @ + 1, !.due = d]
  <2>1. d \in Nat /\ tried[Current] + d >= Total[a + 1]
    BY <1>3
  <2>2. outbox' = [outbox EXCEPT ![Current] = r]
    BY <1>1, <1>2, <1>6 DEF RescheduleDelivery
  <2> HIDE DEF d
  <2>3. r \in OutboxRow /\ r.state = "pending" /\ r.attempts = a + 1 /\ r.due = d
    BY <1>1, <1>2, <1>3, <2>1 DEF OutboxRow
  <2> HIDE DEF r
  <2>4. Waited(r, tried[Current])
    BY <2>1, <2>3 DEF Waited
  <2> QED BY <1>0, <2>2, <2>3, <2>4, Marked
<1>7. CASE MarkFails
  <2> DEFINE r == outbox[Current]
  <2>1. r \in OutboxRow /\ r.state = "pending" /\ r.attempts = a /\ Waited(r, tried[Current])
    BY <1>1, <1>2 DEF SendInv, TimeInv
  <2>2. outbox' = [outbox EXCEPT ![Current] = r]
    BY <1>2, <1>7 DEF MarkFails
  <2> HIDE DEF r
  <2> QED BY <1>0, <2>1, <2>2, Marked
<1> QED BY <1>4, <1>5, <1>6, <1>7 DEF Mark

\* Time and new rows leave the rows of the batch alone.
LEMMA TableMoves ==
  ASSUME SendInv, outbox' \in [Rows -> OutboxRow], UNCHANGED <<sender, seen, faults>>,
         tried' \in [Rows -> Nat], TimeInv',
         \A i \in Rows : \/ /\ outbox'[i].state = outbox[i].state
                            /\ outbox'[i].attempts = outbox[i].attempts
                            /\ outbox[i].due = 0 => outbox'[i].due = 0
                         \/ outbox[i].state = "none" /\ outbox'[i] = New
  PROVE  SendInv'
<1>1. DeliveryTypeOK'
  BY DEF SendInv, DeliveryTypeOK, OutboxRow
<1>2. Current' = Current
  BY DEF Current
<1>3. ASSUME NEW i \in Rows, outbox[i].state = "pending"
      PROVE  /\ outbox'[i].state = "pending" /\ outbox'[i].attempts = outbox[i].attempts
             /\ outbox[i].due = 0 => outbox'[i].due = 0
  BY <1>3
<1>4. ASSUME NEW k \in DOMAIN sender.batch PROVE sender.batch[k].id \in Rows
  <2>1. sender.batch \in Seq(Item)
    BY DEF SendInv, DeliveryTypeOK, Item
  <2>2. sender.batch[k] \in Item
    BY <1>4, <2>1, LenProperties, ElementOfSeq
  <2> QED BY <2>2 DEF Item
<1>5. BatchInv'
  <2>1. BatchIsFresh'
    BY <1>3, <1>4 DEF SendInv, BatchInv, BatchIsFresh
  <2>2. \A k \in DOMAIN sender.batch : outbox'[sender.batch[k].id].due = 0
    BY <1>3, <1>4 DEF SendInv, BatchInv, BatchIsFresh
  <2> QED BY <1>2, <2>1, <2>2 DEF SendInv, BatchInv
<1>6. AttemptsInv'
  <2>1. New.attempts = 0 /\ New.state = "pending"
    BY DEF New
  <2>4. \A i \in Rows : outbox'[i].state = "dead" => outbox'[i].attempts >= maxAttempts
    BY <2>1 DEF SendInv, AttemptsInv
  <2>5. DeliveredWasReceived'
    BY <2>1 DEF SendInv, AttemptsInv, DeliveredWasReceived
  <2> QED BY <1>2, <2>4, <2>5 DEF AttemptsInv
<1> QED BY <1>1, <1>5, <1>6 DEF SendInv

\* Time that passes is time a row has been tried for.
LEMMA TimeAdds ==
  ASSUME NEW r \in OutboxRow, r.state = "pending", NEW t \in Nat, NEW n \in Nat,
         Waited(r, t), n = t + 1 \/ (n = t /\ r.attempts = 0)
  PROVE  Waited(Pass(r), n)
<1>1. Pass(r).state = "pending" /\ Pass(r).attempts = r.attempts
      /\ Pass(r).due = IF r.due = 0 THEN 0 ELSE r.due - 1
  BY DEF Pass, OutboxRow
<1>2. r.due \in Nat /\ r.attempts \in Nat /\ t + r.due >= Total[r.attempts]
  BY DEF OutboxRow, Waited
<1>3. Total[r.attempts] \in Nat /\ Total[0] = 0
  BY <1>2, TotalGrows, TotalDef
<1>4. n + Pass(r).due >= Total[r.attempts]
  BY <1>1, <1>2, <1>3
<1> QED BY <1>1, <1>4 DEF Waited

\* Time passes.
LEMMA TickStep ==
  ASSUME SendInv, Tick
  PROVE  SendInv'
<1>1. outbox \in [Rows -> OutboxRow] /\ tried \in [Rows -> Nat]
  BY DEF SendInv, DeliveryTypeOK, OutboxRow
<1>2. /\ \A i \in Rows : outbox'[i] = IF i \in Pending THEN Pass(outbox[i]) ELSE outbox[i]
      /\ \A i \in Rows : tried'[i] = IF i \in Pending /\ outbox[i].attempts > 0
                                    THEN tried[i] + 1 ELSE tried[i]
  BY DEF Tick
<1>3. ASSUME NEW r \in OutboxRow
      PROVE  /\ Pass(r) \in OutboxRow /\ Pass(r).state = r.state /\ Pass(r).attempts = r.attempts
             /\ r.due = 0 => Pass(r).due = 0
  <2>1. (IF r.due = 0 THEN 0 ELSE r.due - 1) \in Nat
    BY DEF OutboxRow
  <2> QED BY <2>1 DEF Pass, OutboxRow
<1>4. \A i \in Rows : /\ outbox'[i] \in OutboxRow /\ outbox'[i].state = outbox[i].state
                      /\ outbox'[i].attempts = outbox[i].attempts
                      /\ outbox[i].due = 0 => outbox'[i].due = 0
                      /\ tried'[i] \in Nat
  BY <1>1, <1>2, <1>3
<1>5. outbox' = [i \in Rows |-> outbox'[i]] /\ tried' = [i \in Rows |-> tried'[i]]
  BY DEF Tick
<1>6. outbox' \in [Rows -> OutboxRow] /\ tried' \in [Rows -> Nat]
  BY <1>4, <1>5
<1>7. TimeInv'
  <2> SUFFICES ASSUME NEW i \in Rows PROVE Waited(outbox'[i], tried'[i])
    BY DEF TimeInv
  <2>1. Waited(outbox[i], tried[i])
    BY DEF SendInv, TimeInv
  <2>2. CASE i \notin Pending
    BY <1>2, <2>1, <2>2
  <2>3. CASE i \in Pending
    <3>1. outbox[i].state = "pending" /\ outbox'[i] = Pass(outbox[i])
      BY <1>2, <2>3 DEF Pending
    <3>2. outbox[i].attempts \in Nat
      BY DEF SendInv, DeliveryTypeOK
    <3>3. tried'[i] = tried[i] + 1 \/ (tried'[i] = tried[i] /\ outbox[i].attempts = 0)
      BY <1>2, <2>3, <3>2
    <3> QED BY <1>1, <1>4, <2>1, <3>1, <3>3, TimeAdds
  <2> QED BY <2>2, <2>3
<1> QED BY <1>4, <1>6, <1>7, TableMoves DEF Tick

\* The sender comes and goes without a batch; the table stays.
LEMMA SenderRestarts ==
  ASSUME SendInv, Start \/ Die
  PROVE  SendInv'
<1>1. /\ (sender').pc \in {"down", "claim"} /\ (sender').batch = <<>> /\ (sender').ok = FALSE
      /\ sender' \in [pc : {"down", "claim", "post", "mark"}, batch : Seq(Item), ok : BOOLEAN]
  <2>1. <<>> \in Seq(Item)
    BY EmptySeq
  <2>2. Asleep \in [pc : {"down", "claim", "post", "mark"}, batch : Seq(Item), ok : BOOLEAN]
        /\ Asleep.pc = "down" /\ Asleep.batch = <<>> /\ Asleep.ok = FALSE
    BY <2>1 DEF Asleep
  <2> DEFINE r == [Asleep EXCEPT !.pc = "claim"]
  <2>3. r \in [pc : {"down", "claim", "post", "mark"}, batch : Seq(Item), ok : BOOLEAN]
        /\ r.pc = "claim" /\ r.batch = <<>> /\ r.ok = FALSE
    BY <2>2
  <2>4. sender' = Asleep \/ sender' = r
    BY DEF Start, Die
  <2> HIDE DEF r
  <2> QED BY <2>2, <2>3, <2>4
<1>2. UNCHANGED <<outbox, seen, tried>> /\ faults' \in Nat
  BY DeliveryAssumptions DEF Start, Die, SendInv, DeliveryTypeOK
<1>3. DeliveryTypeOK'
  BY <1>1, <1>2 DEF SendInv, DeliveryTypeOK, Item
<1>4. BatchInv'
  <2>1. DOMAIN <<>> = {}
    OBVIOUS
  <2> QED BY <1>1, <2>1 DEF BatchInv, BatchIsFresh
<1>5. AttemptsInv'
  BY <1>1, <1>2 DEF SendInv, AttemptsInv, DeliveredWasReceived
<1>6. TimeInv'
  BY <1>2 DEF SendInv, TimeInv
<1> QED BY <1>3, <1>4, <1>5, <1>6 DEF SendInv

\* New rows come after the others.
LEMMA InsertStep ==
  ASSUME SendInv, NEW m \in Nat, m <= MaxRows, Used = 1 .. m, NEW n \in Nat, m + n <= MaxRows,
         Insert(n), UNCHANGED <<sender, seen, tried, faults>>
  PROVE  SendInv' /\ Used' = 1 .. m + n
<1>1. Cardinality({i \in Rows : outbox[i].state # "none"}) = m
  <2>1. Cardinality(1 .. m) = m
    BY FS_Interval
  <2> QED BY <2>1 DEF Used
<1>2. outbox' = [i \in Rows |-> IF i \in m + 1 .. m + n THEN New ELSE outbox[i]]
  BY <1>1 DEF Insert
<1>3. outbox \in [Rows -> OutboxRow] /\ New \in OutboxRow /\ New.state = "pending"
  BY DEF SendInv, DeliveryTypeOK, OutboxRow, New
<1>4. \A i \in Rows : outbox'[i] = IF i \in m + 1 .. m + n THEN New ELSE outbox[i]
  BY <1>2
<1>5. outbox' \in [Rows -> OutboxRow]
  BY <1>2, <1>3
<1>6. \A i \in m + 1 .. m + n : i \in Rows /\ outbox[i].state = "none"
  BY DeliveryAssumptions DEF Used, Rows
<1>7. SendInv'
  <2>1. TimeInv'
    <3>1. Total[0] = 0
      BY TotalDef
    <3>2. \A t \in Nat : Waited(New, t)
      BY <3>1 DEF New, Waited
    <3> QED BY <1>4, <3>2 DEF SendInv, TimeInv, DeliveryTypeOK
  <2>2. tried' \in [Rows -> Nat]
    BY DEF SendInv, DeliveryTypeOK
  <2> QED BY <1>4, <1>5, <1>6, <2>1, <2>2, TableMoves
<1>8. \A i \in Rows : outbox'[i].state # "none" <=> i \in (1 .. m) \union (m + 1 .. m + n)
  BY <1>3, <1>4, <1>6 DEF Used
<1>9. (1 .. m) \union (m + 1 .. m + n) = 1 .. m + n /\ 1 .. m + n \subseteq Rows
  BY DeliveryAssumptions DEF Rows
<1> QED BY <1>7, <1>8, <1>9 DEF Used

-----------------------------------------------------------------------------
(* Who is told *)

\* A finite set as a sequence: every element once.
LEMMA SetAsSeq ==
  ASSUME NEW S, IsFiniteSet(S)
  PROVE  /\ SetToSeq(S) \in Seq(S) /\ Len(SetToSeq(S)) = Cardinality(S)
         /\ ToSet(SetToSeq(S)) = S
         /\ \A k, l \in DOMAIN SetToSeq(S) : SetToSeq(S)[k] = SetToSeq(S)[l] => k = l
<1> DEFINE n == Cardinality(S)
           f == SetToSeq(S)
<1>1. n \in Nat /\ ExistsBijection(1 .. n, S)
  BY FS_CardinalityType
<1>2. \E g \in [1 .. n -> S] : IsInjective(g)
  BY <1>1 DEF ExistsBijection, Bijection, Injection
<1>3. f \in [1 .. n -> S] /\ IsInjective(f)
  BY <1>2 DEF SetToSeq
<1> HIDE DEF f
<1>4. f \in Injection(1 .. n, S)
  BY <1>3 DEF Injection
<1>5. Cardinality(1 .. n) = n
  BY <1>1, FS_Interval
<1>6. f \in Surjection(1 .. n, S)
  BY <1>4, <1>5, FS_Injection
<1>7. f \in Seq(S) /\ DOMAIN f = 1 .. n
  BY <1>1, <1>3, SeqDef
<1>8. Len(f) = n
  BY <1>1, <1>7, LenProperties
<1>9. ToSet(f) = S
  BY <1>3, <1>6 DEF Surjection, ToSet
<1> QED BY <1>3, <1>7, <1>8, <1>9 DEF f, IsInjective

\* Who is owed an envelope.
OwedOf(r, env) ==
  /\ Webhooks[r] # {} => env.event \in Webhooks[r]
  /\ env.event \notin ServiceEvents =>
       env.queue \in DOMAIN Notify /\ env.event \in Notify[env.queue]

\* Deliveries returns one row for each receiver that is owed one.
LEMMA RouteExact ==
  ASSUME NEW env
  PROVE  /\ Route(env) \in Seq(DOMAIN Webhooks)
         /\ ToSet(Route(env)) = {r \in DOMAIN Webhooks : OwedOf(r, env)}
         /\ \A k, l \in DOMAIN Route(env) : Route(env)[k] = Route(env)[l] => k = l
<1> DEFINE S == {r \in DOMAIN Webhooks : Wants(r, env)}
           Told == \/ env.event \in ServiceEvents
                   \/ env.queue \in DOMAIN Notify /\ env.event \in Notify[env.queue]
<1>1. IsFiniteSet(S)
  BY EventsAssumptions, FS_Subset
<1>2. CASE Told
  <2>1. Route(env) = SetToSeq(S)
    BY <1>2 DEF Route
  <2>2. {r \in DOMAIN Webhooks : OwedOf(r, env)} = S
    BY <1>2 DEF OwedOf, Wants
  <2>3. S \subseteq DOMAIN Webhooks
    OBVIOUS
  <2> HIDE DEF S, Told
  <2>4. /\ SetToSeq(S) \in Seq(S) /\ ToSet(SetToSeq(S)) = S
        /\ \A k, l \in DOMAIN SetToSeq(S) : SetToSeq(S)[k] = SetToSeq(S)[l] => k = l
    BY <1>1, SetAsSeq
  <2>5. SetToSeq(S) \in Seq(DOMAIN Webhooks)
    BY <2>3, <2>4, SeqMonotonic
  <2> QED BY <2>1, <2>2, <2>4, <2>5
<1>3. CASE ~Told
  <2>1. Route(env) = <<>>
    BY <1>3 DEF Route
  <2>2. {r \in DOMAIN Webhooks : OwedOf(r, env)} = {}
    BY <1>3 DEF OwedOf
  <2>3. <<>> \in Seq(DOMAIN Webhooks) /\ DOMAIN <<>> = {}
    BY EmptySeq
  <2> QED BY <2>1, <2>2, <2>3 DEF ToSet
<1> QED BY <1>2, <1>3

-----------------------------------------------------------------------------
(* The emitters *)

Emitter == [pc : {"idle", "begun", "commit"}, env : SUBSET Envelopes,
            id : EventIds \union {0}, to : Seq(DOMAIN Webhooks)]
EmitTypes == /\ published \in Seq(Envelopes) /\ Len(published) \in 0 .. MaxEvents
             /\ emitter \in [Emitters -> Emitter]
             /\ committed \subseteq EventIds

\* A goroutine that is idle.
LEMMA IdleIsIdle == IdleEmitter \in Emitter /\ IdleEmitter.pc = "idle"
<1>1. <<>> \in Seq(DOMAIN Webhooks)
  BY EmptySeq
<1> QED BY <1>1 DEF IdleEmitter, Emitter

\* Begun is a finite set.
LEMMA BegunFinite == IsFiniteSet(Begun) /\ Cardinality(Begun) \in Nat
<1>1. Begun \in SUBSET Emitters
  BY DEF Begun
<1>2. IsFiniteSet(Begun)
  BY <1>1, FS_Subset, EventsAssumptions
<1> QED BY <1>2, FS_CardinalityType

\* An event begins when there is room for it.
LEMMA BeginStep ==
  ASSUME EmitTypes, EmitInv, NEW e \in Emitters, Begin(e)
  PROVE  EmitTypes' /\ EmitInv'
<1>1. PICK env \in Envelopes : emitter' = [emitter EXCEPT ![e].pc = "begun", ![e].env = {env}]
  BY DEF Begin
<1> DEFINE r == [emitter[e] EXCEPT !.pc = "begun", !.env = {env}]
<1>2. r \in Emitter /\ r.pc = "begun"
  BY DEF EmitTypes, Emitter
<1>3. emitter' = [emitter EXCEPT ![e] = r]
  BY <1>1 DEF EmitTypes
<1> HIDE DEF r
<1>4. emitter' \in [Emitters -> Emitter] /\ \A f \in Emitters : emitter'[f] = IF f = e THEN r ELSE emitter[f]
  BY <1>2, <1>3 DEF EmitTypes
<1>5. UNCHANGED <<published, committed>> /\ emitter[e].pc = "idle"
      /\ Len(published) + Cardinality(Begun) < MaxEvents
  BY DEF Begin, Begun
<1>6. Begun' = Begun \union {e} /\ e \notin Begun
  BY <1>2, <1>4, <1>5 DEF Begun
<1>7. Cardinality(Begun') = Cardinality(Begun) + 1
  BY <1>6, BegunFinite, FS_AddElement
<1>8. Len(published) + Cardinality(Begun') <= MaxEvents
  BY <1>5, <1>7, BegunFinite, EventsAssumptions DEF EmitTypes
<1>9. \A f \in Emitters : emitter'[f].pc = "commit" => emitter'[f] = emitter[f]
  BY <1>2, <1>4
<1>10. EmitTypes'
  BY <1>4, <1>5 DEF EmitTypes
<1> QED BY <1>5, <1>8, <1>9, <1>10 DEF EmitInv

\* Publication gives an event the next id.
LEMMA DeliveriesStep ==
  ASSUME EmitTypes, EmitInv, NEW e \in Emitters, Deliveries(e)
  PROVE  /\ EmitTypes' /\ EmitInv'
         /\ \E env \in Envelopes : published' = Append(published, env)
         /\ Len(published') = Len(published) + 1
         /\ \A id \in 1 .. Len(published) : published'[id] = published[id]
<1>1. PICK env \in emitter[e].env :
        /\ published' = Append(published, env)
        /\ emitter' = [emitter EXCEPT ![e].pc = "commit", ![e].id = Len(published'),
                                      ![e].to = Route(env)]
  BY DEF Deliveries
<1>2. env \in Envelopes /\ emitter[e] \in Emitter /\ emitter[e].pc = "begun"
  BY DEF EmitTypes, Emitter, Deliveries
<1> DEFINE n == Len(published')
           t == Route(env)
           r == [emitter[e] EXCEPT !.pc = "commit", !.id = n, !.to = t]
<1>3. /\ published' \in Seq(Envelopes) /\ n = Len(published) + 1
      /\ \A id \in 1 .. Len(published) : published'[id] = published[id]
      /\ published'[n] = env
  BY <1>1, <1>2, AppendProperties DEF EmitTypes
<1>4. e \in Begun
  BY <1>2 DEF Begun
<1>5. /\ Cardinality(Begun \ {e}) = Cardinality(Begun) - 1
      /\ Cardinality(Begun \ {e}) \in Nat
  BY <1>4, BegunFinite, FS_RemoveElement, FS_CardinalityType
<1>6. n + Cardinality(Begun \ {e}) <= MaxEvents /\ n \in EventIds
  BY <1>3, <1>5, BegunFinite, EventsAssumptions DEF EmitTypes, EmitInv, EventIds
<1>7. t \in Seq(DOMAIN Webhooks)
  BY RouteExact
<1>8. emitter' = [emitter EXCEPT ![e] = r]
  BY <1>1 DEF EmitTypes
<1> HIDE DEF n, t
<1>9. r \in Emitter /\ r.pc = "commit" /\ r.id = n /\ r.to = t
  BY <1>2, <1>6, <1>7 DEF Emitter
<1> HIDE DEF r
<1>10. emitter' \in [Emitters -> Emitter] /\ \A f \in Emitters : emitter'[f] = IF f = e THEN r ELSE emitter[f]
  BY <1>8, <1>9 DEF EmitTypes
<1>11. Begun' = Begun \ {e}
  BY <1>9, <1>10 DEF Begun
<1>12. UNCHANGED committed
  BY DEF Deliveries
<1>13. n \in 0 .. MaxEvents
  BY <1>6, EventsAssumptions DEF EventIds
<1>14. EmitTypes'
  BY <1>3, <1>10, <1>12, <1>13 DEF EmitTypes, n
<1>15. EmitInv'
  <2>1. committed \subseteq 1 .. Len(published) /\ Len(published) \in Nat
    BY DEF EmitInv, EmitTypes
  <2>2. n \in 1 .. n /\ n \notin committed /\ 1 .. Len(published) \subseteq 1 .. n
        /\ n \notin 1 .. Len(published)
    BY <1>3, <2>1 DEF n
  <2>3. \A f \in Emitters : emitter'[f].pc = "commit" =>
          /\ emitter'[f].id \in (1 .. n) \ committed
          /\ emitter'[f].to = Route(published'[emitter'[f].id])
    <3> SUFFICES ASSUME NEW f \in Emitters, emitter'[f].pc = "commit"
                 PROVE  /\ emitter'[f].id \in (1 .. n) \ committed
                        /\ emitter'[f].to = Route(published'[emitter'[f].id])
      OBVIOUS
    <3>1. CASE f = e
      BY <1>3, <1>9, <1>10, <2>2, <3>1 DEF t
    <3>2. CASE f # e
      <4>1. /\ emitter'[f] = emitter[f] /\ emitter[f].id \in (1 .. Len(published)) \ committed
            /\ emitter[f].to = Route(published[emitter[f].id])
        BY <1>10, <3>2 DEF EmitInv
      <4>2. published'[emitter[f].id] = published[emitter[f].id]
        BY <1>3, <4>1
      <4> QED BY <2>2, <4>1, <4>2
    <3> QED BY <3>1, <3>2
  <2>4. \A f, g \in Emitters : emitter'[f].pc = "commit" /\ emitter'[g].pc = "commit"
                                 /\ emitter'[f].id = emitter'[g].id => f = g
    <3>1. \A f \in Emitters : f # e /\ emitter'[f].pc = "commit" =>
            emitter'[f] = emitter[f] /\ emitter[f].id # n
      BY <1>10, <2>2 DEF EmitInv
    <3>2. emitter'[e].id = n
      BY <1>9, <1>10
    <3> QED BY <3>1, <3>2 DEF EmitInv
  <2>5. Len(published') + Cardinality(Begun') <= MaxEvents
    BY <1>6, <1>11 DEF n
  <2> QED BY <1>12, <2>1, <2>2, <2>3, <2>4, <2>5 DEF EmitInv, n
<1> QED BY <1>1, <1>2, <1>3, <1>14, <1>15 DEF n

\* A transaction ends an emission, with the event committed or not.
LEMMA EndsStep ==
  ASSUME EmitTypes, EmitInv, NEW e \in Emitters, Commit(e) \/ Rollback(e)
  PROVE  EmitTypes' /\ EmitInv'
<1>1. /\ emitter[e].pc = "commit" /\ emitter' = [emitter EXCEPT ![e] = IdleEmitter]
      /\ UNCHANGED published
      /\ committed' = committed \/ committed' = committed \union {emitter[e].id}
  BY DEF Commit, Rollback
<1>2. /\ emitter' \in [Emitters -> Emitter]
      /\ \A f \in Emitters : emitter'[f] = IF f = e THEN IdleEmitter ELSE emitter[f]
  BY <1>1, IdleIsIdle DEF EmitTypes
<1>3. emitter[e].id \in 1 .. Len(published)
  BY <1>1 DEF EmitInv
<1>4. Begun' = Begun
  BY <1>1, <1>2, IdleIsIdle DEF Begun
<1>5. committed' \subseteq 1 .. Len(published) /\ committed' \subseteq EventIds
  <2>1. 1 .. Len(published) \subseteq EventIds
    BY EventsAssumptions DEF EmitTypes, EventIds
  <2>2. committed \subseteq 1 .. Len(published)
    BY DEF EmitInv
  <2> QED BY <1>1, <1>3, <2>1, <2>2
<1>6. \A f \in Emitters : emitter'[f].pc = "commit" =>
        f # e /\ emitter'[f] = emitter[f] /\ emitter[f].id # emitter[e].id
  BY <1>1, <1>2, IdleIsIdle DEF EmitInv
<1>7. EmitTypes'
  BY <1>1, <1>2, <1>5 DEF EmitTypes
<1> QED BY <1>1, <1>4, <1>5, <1>6, <1>7 DEF EmitInv

\* All emissions end with the process.
LEMMA EmittersDie ==
  ASSUME EmitTypes, EmitInv, Crash
  PROVE  EmitTypes' /\ EmitInv'
<1>1. /\ emitter' = [e \in Emitters |-> IdleEmitter] /\ UNCHANGED <<published, committed>>
  BY DEF Crash
<1>2. emitter' \in [Emitters -> Emitter] /\ \A f \in Emitters : emitter'[f].pc = "idle"
  BY <1>1, IdleIsIdle
<1>3. Begun' = {} /\ Cardinality({}) = 0
  BY <1>2, FS_EmptySet DEF Begun
<1>4. Len(published) + 0 <= MaxEvents
  BY EventsAssumptions DEF EmitTypes
<1>5. EmitTypes'
  BY <1>1, <1>2 DEF EmitTypes
<1> QED BY <1>1, <1>2, <1>3, <1>4, <1>5 DEF EmitInv

-----------------------------------------------------------------------------
(* The outbox *)

\* A sequence has finitely many elements, as many as its length if they differ.
LEMMA Elements ==
  ASSUME NEW S, NEW s \in Seq(S)
  PROVE  /\ IsFiniteSet(ToSet(s))
         /\ (\A k, l \in DOMAIN s : s[k] = s[l] => k = l) => Cardinality(ToSet(s)) = Len(s)
<1>1. Len(s) \in Nat /\ s \in [1 .. Len(s) -> S] /\ DOMAIN s = 1 .. Len(s)
  BY LenProperties
<1>2. IsFiniteSet(1 .. Len(s)) /\ Cardinality(1 .. Len(s)) = Len(s)
  BY <1>1, FS_Interval
<1>3. s \in Surjection(1 .. Len(s), ToSet(s))
  BY <1>1 DEF Surjection, ToSet
<1>4. (\A k, l \in DOMAIN s : s[k] = s[l] => k = l) => s \in Injection(1 .. Len(s), ToSet(s))
  BY <1>1, <1>3 DEF Surjection, Injection, IsInjective
<1> QED BY <1>2, <1>3, <1>4, FS_Surjection

\* The elements of two sequences.
LEMMA ElementsOfBoth ==
  ASSUME NEW S, NEW s \in Seq(S), NEW t \in Seq(S)
  PROVE  ToSet(s \o t) = ToSet(s) \union ToSet(t)
<1>1. \A u : ToSet(u) = Range(u)
  BY DEF ToSet, Range
<1> QED BY <1>1, RangeConcatenation

Pairs == EventIds \X DOMAIN Webhooks

\* There is always room for the rows of the events that are left.
LEMMA RowsFit ==
  ASSUME NEW T, T \subseteq Pairs
  PROVE  IsFiniteSet(T) /\ Cardinality(T) \in Nat /\ Cardinality(T) <= MaxRows
<1>1. IsFiniteSet(EventIds) /\ Cardinality(EventIds) = MaxEvents
  BY FS_Interval, EventsAssumptions DEF EventIds
<1>2. IsFiniteSet(Pairs) /\ Cardinality(Pairs) = MaxEvents * Cardinality(DOMAIN Webhooks)
  BY <1>1, FS_Product, EventsAssumptions DEF Pairs
<1>3. IsFiniteSet(T) /\ Cardinality(T) <= Cardinality(Pairs)
  BY <1>2, FS_Subset
<1>4. Cardinality(T) \in Nat /\ Cardinality(Pairs) \in Nat
  BY <1>2, <1>3, FS_CardinalityType
<1> QED BY <1>2, <1>3, <1>4, EventsAssumptions, DeliveryAssumptions

\* The rows of an event that is committed.
LEMMA NewRows ==
  ASSUME EmitTypes, EmitInv, NEW e \in Emitters, emitter[e].pc = "commit",
         NEW add, add = [k \in DOMAIN emitter[e].to |-> <<emitter[e].id, emitter[e].to[k]>>]
  PROVE  /\ add \in Seq(Pairs) /\ Len(add) = Len(emitter[e].to)
         /\ ToSet(add) = {p \in {emitter[e].id} \X DOMAIN Webhooks : Owed(p[2], p[1])}
         /\ Cardinality(ToSet(add)) = Len(add)
<1> DEFINE id == emitter[e].id
           to == emitter[e].to
<1>1. id \in 1 .. Len(published) /\ to = Route(published[id]) /\ id \in EventIds
  <2>1. id \in 1 .. Len(published) /\ to = Route(published[id])
    BY DEF EmitInv
  <2>2. 1 .. Len(published) \subseteq EventIds
    BY EventsAssumptions DEF EmitTypes, EventIds
  <2> QED BY <2>1, <2>2
<1>2. /\ to \in Seq(DOMAIN Webhooks)
      /\ ToSet(to) = {r \in DOMAIN Webhooks : OwedOf(r, published[id])}
      /\ \A k, l \in DOMAIN to : to[k] = to[l] => k = l
  BY <1>1, RouteExact
<1> HIDE DEF id, to
<1>3. add = [k \in DOMAIN to |-> <<id, to[k]>>]
  BY DEF id, to
<1>4. Len(to) \in Nat /\ DOMAIN to = 1 .. Len(to) /\ \A k \in 1 .. Len(to) : to[k] \in DOMAIN Webhooks
  BY <1>2, LenProperties
<1>5. add \in [1 .. Len(to) -> Pairs] /\ DOMAIN add = 1 .. Len(to)
  BY <1>1, <1>3, <1>4 DEF Pairs
<1>6. add \in Seq(Pairs)
  BY <1>4, <1>5, SeqDef, ZenonT(30)
<1>7. Len(add) = Len(to)
  BY <1>4, <1>5, <1>6, LenProperties
<1>8. \A k, l \in DOMAIN add : add[k] = add[l] => k = l
  <2> TAKE k, l \in DOMAIN add
  <2>1. add[k] = <<id, to[k]>> /\ add[l] = <<id, to[l]>> /\ k \in DOMAIN to /\ l \in DOMAIN to
    BY <1>3
  <2>2. add[k] = add[l] => to[k] = to[l]
    BY <2>1
  <2> QED BY <1>2, <2>1, <2>2
<1>9. ToSet(add) = {p \in {id} \X DOMAIN Webhooks : Owed(p[2], p[1])}
  <2>1. \A r \in DOMAIN Webhooks : Owed(r, id) <=> r \in ToSet(to)
    BY <1>2 DEF Owed, OwedOf
  <2>2. \A r : r \in ToSet(to) <=> \E k \in DOMAIN to : r = to[k]
    BY DEF ToSet
  <2>3. \A p : p \in ToSet(add) <=> \E k \in DOMAIN to : p = <<id, to[k]>>
    BY <1>3 DEF ToSet
  <2>4. ASSUME NEW p \in ToSet(add)
        PROVE  p \in {q \in {id} \X DOMAIN Webhooks : Owed(q[2], q[1])}
    <3>1. PICK k \in DOMAIN to : p = <<id, to[k]>>
      BY <2>3
    <3>2. to[k] \in DOMAIN Webhooks /\ Owed(to[k], id)
      BY <1>4, <2>1, <2>2
    <3> QED BY <3>1, <3>2
  <2>5. ASSUME NEW p \in {id} \X DOMAIN Webhooks, Owed(p[2], p[1]) PROVE p \in ToSet(add)
    <3>1. p = <<id, p[2]>> /\ p[1] = id /\ p[2] \in DOMAIN Webhooks
      BY <2>5
    <3>2. PICK k \in DOMAIN to : p[2] = to[k]
      BY <2>1, <2>2, <2>5, <3>1
    <3> QED BY <2>3, <3>1, <3>2
  <2> QED BY <2>4, <2>5
<1> QED BY <1>6, <1>7, <1>8, <1>9, Elements DEF id, to

\* A commit adds the rows of its event, all of them, after the others.
LEMMA CommitStep ==
  ASSUME EmitTypes, EmitInv, SendInv, content \in Seq(Pairs), RowsInv,
         NEW e \in Emitters, Commit(e)
  PROVE  SendInv' /\ (content \in Seq(Pairs))' /\ RowsInv'
<1> DEFINE id == emitter[e].id
           add == [k \in DOMAIN emitter[e].to |-> <<emitter[e].id, emitter[e].to[k]>>]
<1>0. /\ emitter[e].pc = "commit" /\ Insert(Len(emitter[e].to)) /\ content' = content \o add
      /\ committed' = committed \union {id} /\ UNCHANGED <<sender, seen, tried, faults, published>>
  BY DEF Commit
<1>1. /\ add \in Seq(Pairs) /\ Len(add) = Len(emitter[e].to)
      /\ ToSet(add) = {p \in {id} \X DOMAIN Webhooks : Owed(p[2], p[1])}
      /\ Cardinality(ToSet(add)) = Len(add)
  BY <1>0, NewRows
<1> HIDE DEF add
<1>2. id \notin committed
  BY <1>0 DEF EmitInv
<1>3. /\ ToSet(content) = {p \in committed \X DOMAIN Webhooks : Owed(p[2], p[1])}
      /\ Len(content) = Cardinality(ToSet(content)) /\ Used = 1 .. Len(content)
  BY DEF RowsInv, OutboxIsExact
<1>4. content' \in Seq(Pairs) /\ Len(content') = Len(content) + Len(add)
  BY <1>0, <1>1, ConcatProperties
<1>5. ToSet(content') = ToSet(content) \union ToSet(add)
  BY <1>0, <1>1, ElementsOfBoth
<1>6. ToSet(content) \cap ToSet(add) = {}
  BY <1>1, <1>2, <1>3
<1>7. IsFiniteSet(ToSet(content)) /\ IsFiniteSet(ToSet(add))
  BY <1>1, Elements
<1>8. Len(content) \in Nat /\ Len(add) \in Nat
  BY <1>1, LenProperties
<1>9. Cardinality(ToSet(content')) = Len(content')
  <2>1. Cardinality(ToSet(content) \union ToSet(add))
          = Cardinality(ToSet(content)) + Cardinality(ToSet(add)) - Cardinality({})
    BY <1>6, <1>7, FS_Union
  <2>2. Cardinality({}) = 0
    BY FS_EmptySet
  <2> QED BY <1>1, <1>3, <1>4, <1>5, <1>8, <2>1, <2>2
<1>10. ToSet(content') \subseteq Pairs /\ ToSet(content) \subseteq Pairs
  <2>1. \A u : ToSet(u) = Range(u)
    BY DEF ToSet, Range
  <2> QED BY <1>4, <2>1, RangeOfSeq
<1>11. Len(content') <= MaxRows /\ Len(content) <= MaxRows
  BY <1>3, <1>9, <1>10, RowsFit
<1>12. SendInv' /\ Used' = 1 .. Len(content')
  BY <1>0, <1>1, <1>3, <1>4, <1>8, <1>11, InsertStep
<1>13. ToSet(content') = {p \in committed' \X DOMAIN Webhooks : Owed(p[2], p[1])'}
  <2>1. \A r, x : Owed(r, x)' <=> Owed(r, x)
    BY <1>0 DEF Owed
  <2>2. {p \in committed' \X DOMAIN Webhooks : Owed(p[2], p[1])}
          = {p \in committed \X DOMAIN Webhooks : Owed(p[2], p[1])}
              \union {p \in {id} \X DOMAIN Webhooks : Owed(p[2], p[1])}
    BY <1>0
  <2> QED BY <1>1, <1>3, <1>5, <2>1, <2>2
<1>14. Len(content') = Cardinality(Used')
  <2>1. Cardinality(1 .. Len(content')) = Len(content')
    BY <1>4, <1>8, FS_Interval
  <2> QED BY <1>12, <2>1
<1> QED BY <1>4, <1>9, <1>12, <1>13, <1>14 DEF RowsInv, OutboxIsExact, Used

\* What leaves the rows' states alone, and adds no event that is committed, keeps it.
LEMMA RowsStay ==
  ASSUME RowsInv, EmitInv, UNCHANGED <<content, committed>>, Used' = Used,
         \A id \in 1 .. Len(published) : published'[id] = published[id]
  PROVE  RowsInv'
<1>1. \A r, id : id \in committed => (Owed(r, id)' <=> Owed(r, id))
  BY DEF Owed, EmitInv
<1>2. {p \in committed' \X DOMAIN Webhooks : Owed(p[2], p[1])'}
        = {p \in committed \X DOMAIN Webhooks : Owed(p[2], p[1])}
  BY <1>1
<1> QED BY <1>2 DEF RowsInv, OutboxIsExact, Used

\* The sender and time change states, but no row comes or goes.
LEMMA SendKeepsRows ==
  ASSUME SendInv, Send \/ Tick \/ Start \/ Die
  PROVE  Used' = Used
<1>1. CASE Mark
  <2>0. sender.pc = "mark"
    BY <1>1 DEF Mark, MarkDelivered, MarkDead, RescheduleDelivery, MarkFails, Sending
  <2>1. Current \in Rows /\ outbox[Current].state = "pending"
    BY <2>0, CurrentRow
  <2>2. \A i \in Rows : \/ outbox'[i].state = outbox[i].state
                        \/ i = Current /\ outbox'[i].state \in {"delivered", "dead"}
    BY <1>1, <2>1 DEF Mark, MarkDelivered, MarkDead, RescheduleDelivery, MarkFails, SendInv,
                      DeliveryTypeOK
  <2> QED BY <2>1, <2>2 DEF Used
<1>2. CASE Tick
  <2>1. \A i \in Rows : outbox'[i].state = outbox[i].state
    BY <1>2 DEF Tick, Pass, SendInv, DeliveryTypeOK
  <2> QED BY <2>1 DEF Used
<1>3. CASE Claim \/ Post \/ Start \/ Die
  BY <1>3 DEF Claim, Post, Start, Die, Used
<1> QED BY <1>1, <1>2, <1>3 DEF Send

-----------------------------------------------------------------------------
(* Increasing sequences *)

\* Two increasing sequences one after the other.
LEMMA IncConcat ==
  ASSUME NEW s \in Seq(Nat), NEW t \in Seq(Nat)
  PROVE  Inc(s \o t) <=> Inc(s) /\ Inc(t) /\ Before(ToSet(s), ToSet(t))
<1> DEFINE m == Len(s)
           n == Len(t)
           q == s \o t
<1>1. m \in Nat /\ n \in Nat /\ DOMAIN s = 1 .. m /\ DOMAIN t = 1 .. n
  BY LenProperties
<1>2. q \in Seq(Nat) /\ Len(q) = m + n /\ \A i \in 1 .. m + n : q[i] = IF i <= m THEN s[i] ELSE t[i - m]
  BY ConcatProperties
<1>3. DOMAIN q = 1 .. m + n
  BY <1>2, LenProperties
<1> HIDE DEF m, n, q
<1>4. \A i \in 1 .. m : i \in 1 .. m + n /\ q[i] = s[i]
  BY <1>1, <1>2
<1>5. \A j \in 1 .. n : m + j \in 1 .. m + n /\ q[m + j] = t[j]
  <2> TAKE j \in 1 .. n
  <2>1. m + j \in 1 .. m + n /\ ~(m + j <= m) /\ (m + j) - m = j
    BY <1>1
  <2> QED BY <1>2, <2>1
<1>6. ASSUME Inc(q) PROVE Inc(s) /\ Inc(t) /\ Before(ToSet(s), ToSet(t))
  <2>1. Inc(s)
    BY <1>1, <1>3, <1>4, <1>6 DEF Inc
  <2>2. Inc(t)
    <3> SUFFICES ASSUME NEW k \in 1 .. n, NEW l \in 1 .. n, k < l PROVE t[k] < t[l]
      BY <1>1 DEF Inc
    <3>1. m + k < m + l
      BY <1>1
    <3> QED BY <1>3, <1>5, <1>6, <3>1 DEF Inc
  <2>3. Before(ToSet(s), ToSet(t))
    <3> SUFFICES ASSUME NEW i \in 1 .. m, NEW j \in 1 .. n PROVE s[i] < t[j]
      BY <1>1 DEF Before, ToSet
    <3>1. i < m + j
      BY <1>1
    <3> QED BY <1>3, <1>4, <1>5, <1>6, <3>1 DEF Inc
  <2> QED BY <2>1, <2>2, <2>3
<1>7. ASSUME Inc(s), Inc(t), Before(ToSet(s), ToSet(t)) PROVE Inc(q)
  <2> SUFFICES ASSUME NEW k \in 1 .. m + n, NEW l \in 1 .. m + n, k < l PROVE q[k] < q[l]
    BY <1>3 DEF Inc
  <2>1. CASE l <= m
    <3>1. k \in 1 .. m /\ l \in 1 .. m
      BY <1>1, <2>1
    <3> QED BY <1>1, <1>4, <1>7, <3>1 DEF Inc
  <2>2. CASE ~(l <= m) /\ k <= m
    <3>1. k \in 1 .. m /\ l - m \in 1 .. n
      BY <1>1, <2>2
    <3>2. q[k] = s[k] /\ q[l] = t[l - m]
      BY <1>2, <2>2
    <3>3. s[k] \in ToSet(s) /\ t[l - m] \in ToSet(t)
      BY <1>1, <3>1 DEF ToSet
    <3> QED BY <1>7, <3>2, <3>3 DEF Before
  <2>3. CASE ~(k <= m)
    <3>1. k - m \in 1 .. n /\ l - m \in 1 .. n /\ k - m < l - m /\ ~(l <= m)
      BY <1>1, <2>3
    <3>2. q[k] = t[k - m] /\ q[l] = t[l - m]
      BY <1>2, <2>3, <3>1
    <3> QED BY <1>1, <1>7, <3>1, <3>2 DEF Inc
  <2> QED BY <1>1, <2>1, <2>2, <2>3
<1> QED BY <1>6, <1>7 DEF q

\* An element that is larger than the others goes last.
LEMMA IncAppend ==
  ASSUME NEW s \in Seq(Nat), NEW x \in Nat
  PROVE  /\ Append(s, x) \in Seq(Nat)
         /\ ToSet(Append(s, x)) = ToSet(s) \union {x}
         /\ Inc(s) /\ Before(ToSet(s), {x}) => Inc(Append(s, x))
<1> DEFINE n == Len(s)
           q == Append(s, x)
<1>1. n \in Nat /\ DOMAIN s = 1 .. n
  BY LenProperties
<1>2. /\ q \in Seq(Nat) /\ Len(q) = n + 1 /\ q[n + 1] = x
      /\ \A i \in 1 .. n : q[i] = s[i]
  BY AppendProperties
<1>3. DOMAIN q = 1 .. n + 1
  BY <1>2, LenProperties
<1> HIDE DEF n, q
<1>4. \A i \in 1 .. n + 1 : i \in 1 .. n \/ i = n + 1
  BY <1>1
<1>5. ToSet(q) = ToSet(s) \union {x}
  <2>1. 1 .. n \subseteq 1 .. n + 1 /\ n + 1 \in 1 .. n + 1
    BY <1>1
  <2> QED BY <1>1, <1>2, <1>3, <1>4, <2>1 DEF ToSet
<1>6. ASSUME Inc(s), Before(ToSet(s), {x}) PROVE Inc(q)
  <2> SUFFICES ASSUME NEW k \in 1 .. n + 1, NEW l \in 1 .. n + 1, k < l PROVE q[k] < q[l]
    BY <1>3 DEF Inc
  <2>1. k \in 1 .. n
    BY <1>1
  <2>2. CASE l \in 1 .. n
    BY <1>1, <1>2, <1>6, <2>1, <2>2 DEF Inc
  <2>3. CASE l = n + 1
    <3>1. s[k] \in ToSet(s)
      BY <1>1, <2>1 DEF ToSet
    <3> QED BY <1>2, <1>6, <2>1, <2>3, <3>1 DEF Before
  <2> QED BY <1>4, <2>2, <2>3
<1> QED BY <1>2, <1>5, <1>6 DEF q

\* The first element is smaller than the others.
LEMMA IncTail ==
  ASSUME NEW s \in Seq(Nat), s # <<>>
  PROVE  /\ Head(s) \in Nat /\ Tail(s) \in Seq(Nat)
         /\ ToSet(s) = {Head(s)} \union ToSet(Tail(s))
         /\ Inc(s) => Inc(Tail(s)) /\ Before({Head(s)}, ToSet(Tail(s)))
<1> DEFINE n == Len(s)
           t == Tail(s)
<1>1. n \in Nat \ {0} /\ DOMAIN s = 1 .. n
  BY EmptySeq, LenProperties
<1>2. /\ Head(s) \in Nat /\ t \in Seq(Nat) /\ Len(t) = n - 1
      /\ \A i \in 1 .. Len(t) : t[i] = s[i + 1]
  BY HeadTailProperties
<1>3. DOMAIN t = 1 .. n - 1 /\ \A i \in 1 .. n - 1 : t[i] = s[i + 1]
  BY <1>2, LenProperties
<1>4. Head(s) = s[1]
  OBVIOUS
<1> HIDE DEF n, t
<1>5. \A i \in 1 .. n : i = 1 \/ (i - 1 \in 1 .. n - 1 /\ (i - 1) + 1 = i)
  BY <1>1
<1>6. \A i \in 1 .. n - 1 : i + 1 \in 1 .. n
  BY <1>1
<1>7. ToSet(s) = {Head(s)} \union ToSet(t)
  <2>1. \A x : x \in ToSet(t) <=> \E i \in 1 .. n - 1 : x = s[i + 1]
    BY <1>3 DEF ToSet
  <2>2. \A x : x \in ToSet(s) <=> \E i \in 1 .. n : x = s[i]
    BY <1>1 DEF ToSet
  <2>3. ASSUME NEW x \in ToSet(s), x # s[1] PROVE x \in ToSet(t)
    <3>1. PICK i \in 1 .. n : x = s[i]
      BY <2>2
    <3>2. i - 1 \in 1 .. n - 1 /\ (i - 1) + 1 = i
      BY <1>5, <2>3, <3>1
    <3> QED BY <2>1, <3>1, <3>2
  <2>4. 1 \in 1 .. n
    BY <1>1
  <2> QED BY <1>4, <1>6, <2>1, <2>2, <2>3, <2>4
<1>8. ASSUME Inc(s) PROVE Inc(t) /\ Before({Head(s)}, ToSet(t))
  <2>1. Inc(t)
    <3> SUFFICES ASSUME NEW k \in 1 .. n - 1, NEW l \in 1 .. n - 1, k < l PROVE t[k] < t[l]
      BY <1>3 DEF Inc
    <3>1. k + 1 < l + 1
      BY <1>1
    <3> QED BY <1>1, <1>3, <1>6, <1>8, <3>1 DEF Inc
  <2>2. ASSUME NEW i \in 1 .. n - 1 PROVE s[1] < t[i]
    <3>1. 1 < i + 1 /\ 1 \in 1 .. n
      BY <1>1
    <3> QED BY <1>1, <1>3, <1>6, <1>8, <3>1 DEF Inc
  <2> QED BY <1>3, <1>4, <2>1, <2>2 DEF Before, ToSet
<1> QED BY <1>2, <1>7, <1>8 DEF t

-----------------------------------------------------------------------------
(* The live stream *)

\* A subscriber that is not there.
LEMMA GoneIsSub == /\ Gone \in Sub /\ Gone.on = FALSE /\ Gone.chan = <<>> /\ Gone.got = <<>>
                   /\ Gone.since = 0
<1>1. <<>> \in Seq(EventIds)
  BY EmptySeq
<1> QED BY <1>1 DEF Gone, Sub

\* Ids are numbers, so sequences of them are sequences of numbers.
LEMMA IdSeqs == EventIds \subseteq Nat /\ \A q \in Seq(EventIds) : q \in Seq(Nat)
<1>1. EventIds \subseteq Nat
  BY EventsAssumptions DEF EventIds
<1> QED BY <1>1, SeqMonotonic

\* A subscriber comes after a number of events.
LEMMA SinceIsNumber ==
  ASSUME NEW u \in Sub
  PROVE  u.since \in Nat
<1>1. u.since \in EventIds \union {0}
  BY DEF Sub
<1> QED BY <1>1, EventsAssumptions DEF EventIds

\* One that has nothing, and is owed nothing yet.
LEMMA FreshSubscriber ==
  ASSUME NEW s \in Subs, NEW u \in Sub, NEW pub, Len(pub) \in Nat, u.chan = <<>>, u.got = <<>>,
         \/ u = Gone
         \/ u.on /\ u.since = Len(pub)
  PROVE  Subscriber(s, u, pub)
<1>1. DOMAIN <<>> = {} /\ ToSet(<<>>) = {} /\ Inc(<<>>)
  BY DEF ToSet, Inc
<1>2. u.since <= Len(pub)
  BY GoneIsSub
<1>3. Before({}, {})
  BY DEF Before
<1>4. CASE u = Gone
  BY <1>1, <1>2, <1>3, <1>4, GoneIsSub DEF Subscriber
<1>5. CASE u.on /\ u.since = Len(pub)
  <2>1. u.since + 1 .. Len(pub) = {}
    BY <1>5
  <2> QED BY <1>1, <1>2, <1>3, <1>5, <2>1 DEF Subscriber, Visible
<1> QED BY <1>4, <1>5

\* What was published does not change for those who see it.
LEMMA PublishStep ==
  ASSUME StreamInv, Len(published) \in Nat, Len(published') = Len(published) + 1,
         Len(published') \in EventIds,
         \A id \in 1 .. Len(published) : published'[id] = published[id],
         subs' = Publish(Len(published'))
  PROVE  StreamInv'
<1> DEFINE m == Len(published)
           n == Len(published')
<1>1. subs' = [s \in Subs |->
                 IF ~subs[s].on THEN subs[s]
                 ELSE IF Len(subs[s].chan) < Buffer THEN [subs[s] EXCEPT !.chan = Append(@, n)]
                 ELSE [subs[s] EXCEPT !.lost = TRUE]]
  BY DEF Publish
<1>2. m \in Nat /\ n = m + 1 /\ n \in EventIds /\ 1 .. m \subseteq 1 .. n
  OBVIOUS
<1> HIDE DEF n
<1>3. ASSUME NEW s \in Subs
      PROVE  subs'[s] \in Sub /\ Subscriber(s, subs'[s], published')
  <2> DEFINE u == subs[s]
             v == subs'[s]
             old == u.since + 1 .. m
             new == u.since + 1 .. n
  <2>1. u \in Sub /\ Subscriber(s, u, published)
    BY DEF StreamInv
  <2>2. u.since \in Nat /\ u.since <= m /\ ToSet(u.chan) \subseteq old /\ old \subseteq 1 .. m
    <3>1. u.since \in Nat
      BY <2>1, SinceIsNumber
    <3>2. u.since <= m /\ ToSet(u.chan) \subseteq old
      BY <2>1 DEF Subscriber
    <3>3. old \subseteq 1 .. m
      BY <1>2, <3>1
    <3> QED BY <3>1, <3>2, <3>3
  <2>3. new = old \union {n} /\ n \notin old /\ old \subseteq new
    BY <1>2, <2>2
  <2>4. \A S \in SUBSET old : Visible(s, S, published') = Visible(s, S, published)
    BY <2>2 DEF Visible
  <2>5. \A S, T : S \subseteq T => Visible(s, S, published') \subseteq Visible(s, T, published')
    BY DEF Visible
  <2>6. CASE ~u.on
    <3>1. v = u /\ u = Gone
      BY <1>1, <2>1, <2>6 DEF Subscriber
    <3>2. Subscriber(s, Gone, published')
      BY <1>2, GoneIsSub, FreshSubscriber DEF n
    <3> QED BY <2>1, <3>1, <3>2
  <2>7. CASE u.on /\ Len(u.chan) < Buffer
    <3> DEFINE c == Append(u.chan, n)
               w == [u EXCEPT !.chan = c]
    <3>1. u.chan \in Seq(EventIds) /\ u.chan \in Seq(Nat) /\ n \in Nat
      BY <1>2, <2>1, IdSeqs DEF Sub
    <3>2. c \in Seq(EventIds)
      BY <1>2, <3>1, AppendProperties
    <3>3. Inc(u.chan) /\ Before(ToSet(u.chan), {n})
      BY <1>2, <2>1, <2>2 DEF Subscriber, Before
    <3>4. ToSet(c) = ToSet(u.chan) \union {n} /\ Inc(c)
      BY <3>1, <3>3, IncAppend
    <3> HIDE DEF c
    <3>5. v = w
      BY <1>1, <2>7 DEF c
    <3>6. /\ w \in Sub /\ w.on = TRUE /\ w.chan = c /\ w.got = u.got /\ w.since = u.since
          /\ w.lost = u.lost
      BY <2>1, <2>7, <3>2 DEF Sub
    <3> HIDE DEF w
    <3> DEFINE mine == ToSet(u.got) \union Visible(s, ToSet(u.chan), published)
               all == Visible(s, old, published)
               mine2 == ToSet(u.got) \union Visible(s, ToSet(c), published')
               all2 == Visible(s, new, published')
    <3>7. mine \subseteq all /\ (~u.lost => mine = all) /\ ToSet(u.got) \subseteq old
      BY <2>1, <2>7 DEF Subscriber, Visible
    <3>8. /\ Visible(s, ToSet(c), published')
               = Visible(s, ToSet(u.chan), published') \union Visible(s, {n}, published')
          /\ all2 = Visible(s, old, published') \union Visible(s, {n}, published')
      BY <2>3, <3>4 DEF Visible
    <3>9. mine2 = mine \union Visible(s, {n}, published')
          /\ all2 = all \union Visible(s, {n}, published')
      BY <2>2, <2>4, <3>8
    <3>10. mine2 \subseteq all2 /\ (~u.lost => mine2 = all2)
      BY <3>7, <3>9
    <3>11. Before(ToSet(u.got), ToSet(c))
      <4>1. Before(ToSet(u.got), ToSet(u.chan))
        BY <2>1 DEF Subscriber
      <4>2. Before(ToSet(u.got), {n})
        BY <1>2, <2>2, <3>7 DEF Before
      <4> QED BY <3>4, <4>1, <4>2 DEF Before
    <3>12. u.since <= n /\ ToSet(c) \subseteq new
      BY <1>2, <2>2, <2>3, <3>4
    <3>13. Inc(u.got)
      BY <2>1 DEF Subscriber
    <3> HIDE DEF new
    <3>14. Subscriber(s, w, published')
      BY <3>4, <3>6, <3>10, <3>11, <3>12, <3>13 DEF Subscriber, new, n
    <3> QED BY <3>5, <3>6, <3>14
  <2>8. CASE u.on /\ ~(Len(u.chan) < Buffer)
    <3> DEFINE w == [u EXCEPT !.lost = TRUE]
    <3>1. v = w
      BY <1>1, <2>8
    <3>2. /\ w \in Sub /\ w.on = TRUE /\ w.chan = u.chan /\ w.got = u.got /\ w.since = u.since
          /\ w.lost = TRUE
      BY <2>1, <2>8 DEF Sub
    <3> HIDE DEF w
    <3>3. ToSet(u.got) \union Visible(s, ToSet(u.chan), published) \subseteq Visible(s, old, published)
      BY <2>1, <2>8 DEF Subscriber
    <3>4. ToSet(u.got) \union Visible(s, ToSet(u.chan), published') \subseteq Visible(s, new, published')
      BY <2>2, <2>3, <2>4, <2>5, <3>3
    <3>5. u.since <= n /\ ToSet(u.chan) \subseteq new
      BY <1>2, <2>2, <2>3
    <3>6. Subscriber(s, w, published')
      BY <2>1, <3>2, <3>4, <3>5 DEF Subscriber, n
    <3> QED BY <3>1, <3>2, <3>6
  <2> QED BY <2>6, <2>7, <2>8
<1>4. subs' = [s \in Subs |-> subs'[s]]
  BY <1>1
<1> QED BY <1>3, <1>4 DEF StreamInv, Subscriber, Visible, Allowed

\* A subscriber that changes leaves the others alone.
LEMMA OneSubscriber ==
  ASSUME StreamInv, NEW s \in Subs, NEW u \in Sub, Subscriber(s, u, published),
         subs' = [subs EXCEPT ![s] = u], UNCHANGED published
  PROVE  StreamInv'
<1>1. subs' \in [Subs -> Sub] /\ \A t \in Subs : subs'[t] = IF t = s THEN u ELSE subs[t]
  BY DEF StreamInv
<1>2. \A t \in Subs : Subscriber(t, subs'[t], published)
  BY <1>1 DEF StreamInv
<1> QED BY <1>1, <1>2 DEF StreamInv, Subscriber, Visible, Allowed

\* Clients come and go.
LEMMA ClientStep ==
  ASSUME StreamInv, Len(published) \in EventIds \union {0}, NEW s \in Subs, Subscribe(s) \/ Leave(s)
  PROVE  StreamInv'
<1>1. Len(published) \in Nat
  BY EventsAssumptions DEF EventIds
<1>2. CASE Subscribe(s)
  <2> DEFINE n == Len(published)
             u == [Gone EXCEPT !.on = TRUE, !.since = n]
  <2>1. subs' = [subs EXCEPT ![s] = u] /\ UNCHANGED published
    BY <1>2 DEF Subscribe
  <2> HIDE DEF n
  <2>2. u \in Sub /\ u.on = TRUE /\ u.since = n /\ u.chan = <<>> /\ u.got = <<>>
    <3>1. n \in EventIds \union {0}
      BY DEF n
    <3> QED BY <3>1, GoneIsSub DEF Sub
  <2> HIDE DEF u
  <2>3. Subscriber(s, u, published)
    BY <1>1, <2>2, FreshSubscriber DEF n
  <2> QED BY <2>1, <2>2, <2>3, OneSubscriber
<1>3. CASE Leave(s)
  <2>1. subs' = [subs EXCEPT ![s] = Gone] /\ UNCHANGED published
    BY <1>3 DEF Leave
  <2>2. Subscriber(s, Gone, published)
    BY <1>1, GoneIsSub, FreshSubscriber
  <2> QED BY <2>1, <2>2, GoneIsSub, OneSubscriber
<1> QED BY <1>2, <1>3

\* An event leaves the channel for the client, if it may see it.
LEMMA StreamStep ==
  ASSUME StreamInv, NEW s \in Subs, Stream(s)
  PROVE  StreamInv'
<1> DEFINE u == subs[s]
           id == Head(u.chan)
           see == Allowed(s, published[id])
           c == Tail(u.chan)
           g == IF see THEN Append(u.got, id) ELSE u.got
           w == [u EXCEPT !.chan = c, !.got = g]
<1>1. u \in Sub /\ Subscriber(s, u, published) /\ u.chan # <<>> /\ UNCHANGED published
  BY DEF StreamInv, Stream
<1>2. u.chan \in Seq(EventIds) /\ u.got \in Seq(EventIds)
  BY <1>1 DEF Sub
<1>3. u.chan \in Seq(Nat) /\ u.got \in Seq(Nat)
  BY <1>2, IdSeqs
<1>4. subs' = [subs EXCEPT ![s] = w]
  BY DEF Stream, StreamInv
<1>5. id \in EventIds /\ c \in Seq(EventIds)
  BY <1>1, <1>2, HeadTailProperties
<1>6. Inc(u.got) /\ Inc(u.chan) /\ Before(ToSet(u.got), ToSet(u.chan))
  BY <1>1 DEF Subscriber
<1>7. /\ id \in Nat /\ ToSet(u.chan) = {id} \union ToSet(c)
      /\ Inc(c) /\ Before({id}, ToSet(c))
  BY <1>1, <1>3, <1>6, IncTail
<1>8. u.on
  BY <1>1, GoneIsSub DEF Subscriber
<1>9. g \in Seq(EventIds) /\ ToSet(g) = (IF see THEN ToSet(u.got) \union {id} ELSE ToSet(u.got)) /\ Inc(g)
  <2>1. CASE see
    <3>1. Append(u.got, id) \in Seq(EventIds)
      BY <1>2, <1>5, AppendProperties
    <3>2. Before(ToSet(u.got), {id})
      BY <1>6, <1>7 DEF Before
    <3>3. ToSet(Append(u.got, id)) = ToSet(u.got) \union {id} /\ Inc(Append(u.got, id))
      BY <1>3, <1>6, <1>7, <3>2, IncAppend
    <3>4. g = Append(u.got, id)
      BY <2>1
    <3> HIDE DEF g
    <3> QED BY <2>1, <3>1, <3>3, <3>4
  <2>2. CASE ~see
    BY <1>2, <1>6, <2>2
  <2> QED BY <2>1, <2>2
<1>10. Before(ToSet(g), ToSet(c))
  <2> HIDE DEF g, c, id, see
  <2> QED BY <1>6, <1>7, <1>9 DEF Before
<1>11. ToSet(g) \union Visible(s, ToSet(c), published)
         = ToSet(u.got) \union Visible(s, ToSet(u.chan), published)
  <2>1. Visible(s, ToSet(u.chan), published)
          = (IF see THEN {id} ELSE {}) \union Visible(s, ToSet(c), published)
    <3>1. \A x \in {id} : Allowed(s, published[x]) <=> see
      OBVIOUS
    <3> HIDE DEF c, id, see
    <3> QED BY <1>7, <3>1 DEF Visible
  <2> HIDE DEF g, c, id, see
  <2> QED BY <1>9, <2>1
<1> HIDE DEF g, c
<1>12. /\ w \in Sub /\ w.on = u.on /\ w.chan = c /\ w.got = g /\ w.since = u.since
       /\ w.lost = u.lost
  BY <1>1, <1>5, <1>9 DEF Sub
<1> HIDE DEF w
<1>13. Subscriber(s, w, published)
  <2>1. ToSet(c) \subseteq ToSet(u.chan)
    BY <1>7
  <2> QED BY <1>1, <1>7, <1>8, <1>9, <1>10, <1>11, <1>12, <2>1 DEF Subscriber
<1> QED BY <1>1, <1>4, <1>12, <1>13, OneSubscriber

\* The process dies: all connections end.
LEMMA StreamsDie ==
  ASSUME StreamInv, Len(published) \in Nat, subs' = [s \in Subs |-> Gone], UNCHANGED published
  PROVE  StreamInv'
<1>1. \A s \in Subs : subs'[s] = Gone /\ Subscriber(s, Gone, published)
  BY GoneIsSub, FreshSubscriber
<1>2. subs' \in [Subs -> Sub]
  BY GoneIsSub
<1> QED BY <1>1, <1>2 DEF StreamInv, Subscriber, Visible, Allowed

\* And this is what LiveStreamIsFaithful says.
LEMMA StreamFaithful ==
  ASSUME StreamInv
  PROVE  LiveStreamIsFaithful
<1> SUFFICES ASSUME NEW s \in Subs, subs[s].on
             PROVE  LET mine == subs[s].got \o subs[s].chan
                        May(S) == {id \in S : Allowed(s, published[id])}
                        all  == May(subs[s].since + 1 .. Len(published))
                    IN /\ \A k, l \in DOMAIN mine : k < l => mine[k] < mine[l]
                       /\ IF subs[s].lost
                          THEN ToSet(subs[s].got) \union May(ToSet(subs[s].chan)) \subseteq all
                          ELSE ToSet(subs[s].got) \union May(ToSet(subs[s].chan)) = all
  BY DEF LiveStreamIsFaithful
<1> DEFINE u == subs[s]
<1>1. u \in Sub /\ Subscriber(s, u, published)
  BY DEF StreamInv
<1>2. u.got \in Seq(Nat) /\ u.chan \in Seq(Nat)
  BY <1>1, IdSeqs DEF Sub
<1>3. Inc(u.got \o u.chan)
  BY <1>1, <1>2, IncConcat DEF Subscriber
<1>4. /\ ToSet(u.got) \union Visible(s, ToSet(u.chan), published)
           \subseteq Visible(s, u.since + 1 .. Len(published), published)
      /\ ~u.lost => ToSet(u.got) \union Visible(s, ToSet(u.chan), published)
                      = Visible(s, u.since + 1 .. Len(published), published)
  BY <1>1 DEF Subscriber
<1> QED BY <1>3, <1>4 DEF Inc, Visible

-----------------------------------------------------------------------------
(* Every step keeps all of it *)

IInv == SendInv /\ EmitTypes /\ EmitInv /\ content \in Seq(Pairs) /\ RowsInv /\ StreamInv

\* Nothing has happened yet.
LEMMA EventsInit == Init => IInv
<1> SUFFICES ASSUME Init PROVE IInv
  OBVIOUS
<1>0. <<>> \in Seq(Item) /\ <<>> \in Seq(Envelopes) /\ <<>> \in Seq(Pairs) /\ Len(<<>>) = 0
      /\ DOMAIN <<>> = {}
  BY EmptySeq
<1>1. SendInv
  <2>1. NoRow \in OutboxRow /\ NoRow.state = "none" /\ NoRow.attempts = 0
    BY DEF NoRow, OutboxRow
  <2>2. outbox \in [Rows -> OutboxRow] /\ \A i \in Rows : outbox[i] = NoRow
    BY <2>1 DEF Init, DeliveryInit
  <2>3. Asleep \in [pc : {"down", "claim", "post", "mark"}, batch : Seq(Item), ok : BOOLEAN]
        /\ Asleep.pc = "down" /\ Asleep.batch = <<>> /\ Asleep.ok = FALSE
    BY <1>0 DEF Asleep
  <2>4. sender = Asleep /\ seen = {} /\ faults = 0 /\ tried \in [Rows -> Nat]
    BY DEF Init, DeliveryInit
  <2>5. DeliveryTypeOK
    BY <2>2, <2>3, <2>4 DEF DeliveryTypeOK, OutboxRow, Item
  <2>6. BatchInv
    BY <1>0, <2>3, <2>4 DEF BatchInv, BatchIsFresh
  <2>7. AttemptsInv
    BY <2>1, <2>2, <2>3, <2>4 DEF AttemptsInv, DeliveredWasReceived
  <2>8. TimeInv
    BY <2>1, <2>2 DEF TimeInv, Waited
  <2> QED BY <2>5, <2>6, <2>7, <2>8 DEF SendInv
<1>2. /\ emitter \in [Emitters -> Emitter] /\ \A e \in Emitters : emitter[e].pc = "idle"
      /\ published = <<>> /\ committed = {} /\ content = <<>>
  BY IdleIsIdle DEF Init
<1>3. EmitTypes
  BY <1>0, <1>2, EventsAssumptions DEF EmitTypes
<1>4. EmitInv
  <2>1. Begun = {} /\ Cardinality({}) = 0
    BY <1>2, FS_EmptySet DEF Begun
  <2> QED BY <1>0, <1>2, <2>1, EventsAssumptions DEF EmitInv
<1>5. RowsInv
  <2>1. ToSet(<<>>) = {} /\ Cardinality({}) = 0
    BY FS_EmptySet DEF ToSet
  <2>2. \A i \in Rows : outbox[i].state = "none"
    BY DEF Init, DeliveryInit, NoRow
  <2>3. Used = {} /\ 1 .. 0 = {}
    BY <2>2 DEF Used
  <2> QED BY <1>0, <1>2, <2>1, <2>3 DEF RowsInv, OutboxIsExact, Used
<1>6. StreamInv
  <2>1. \A s \in Subs : subs[s] = Gone /\ Subscriber(s, Gone, published)
    BY <1>0, <1>2, GoneIsSub, FreshSubscriber DEF Init
  <2>2. subs \in [Subs -> Sub]
    BY GoneIsSub DEF Init
  <2> QED BY <2>1, <2>2 DEF StreamInv
<1> QED BY <1>0, <1>1, <1>2, <1>3, <1>4, <1>5, <1>6 DEF IInv

\* Each group of variables by the actions that change it.
LEMMA EventsStep == IInv /\ [Next]_vars => IInv'
<1> SUFFICES ASSUME IInv, [Next]_vars PROVE IInv'
  OBVIOUS
<1>0. /\ SendInv /\ EmitTypes /\ EmitInv /\ content \in Seq(Pairs) /\ RowsInv /\ StreamInv
      /\ Len(published) \in Nat /\ Len(published) \in EventIds \union {0}
  BY EventsAssumptions DEF IInv, EmitTypes, EventIds
<1>1. ASSUME UNCHANGED deliveryVars PROVE SendInv' /\ Used' = Used
  <2>1. UNCHANGED <<outbox, sender, seen, tried, faults>>
    BY <1>1 DEF deliveryVars
  <2>2. Current' = Current
    BY <2>1 DEF Current
  <2> QED BY <1>0, <2>1, <2>2 DEF SendInv, DeliveryTypeOK, BatchInv, BatchIsFresh, AttemptsInv,
                               DeliveredWasReceived, TimeInv, Used
<1>2. ASSUME UNCHANGED <<published, emitter, committed>> PROVE EmitTypes' /\ EmitInv'
  BY <1>0, <1>2 DEF EmitTypes, EmitInv, Begun
<1>3. ASSUME UNCHANGED <<published, content, committed>>, Used' = Used
      PROVE  RowsInv' /\ (content \in Seq(Pairs))'
  BY <1>0, <1>3, RowsStay
<1>4. ASSUME UNCHANGED <<published, subs>> PROVE StreamInv'
  BY <1>0, <1>4 DEF StreamInv, Subscriber, Visible, Allowed
<1>5. ASSUME NEW e \in Emitters, Begin(e) PROVE IInv'
  <2>1. UNCHANGED <<deliveryVars, published, content, committed, subs>>
    BY <1>5 DEF Begin
  <2> QED BY <1>0, <1>1, <1>3, <1>4, <1>5, <2>1, BeginStep DEF IInv
<1>6. ASSUME NEW e \in Emitters, Deliveries(e) PROVE IInv'
  <2>1. UNCHANGED <<deliveryVars, content, committed>> /\ subs' = Publish(Len(published'))
    BY <1>6 DEF Deliveries
  <2>2. /\ EmitTypes' /\ EmitInv' /\ Len(published') = Len(published) + 1
        /\ \A id \in 1 .. Len(published) : published'[id] = published[id]
    BY <1>0, <1>6, DeliveriesStep
  <2>3. SendInv' /\ Used' = Used
    BY <1>1, <2>1
  <2>4. RowsInv' /\ (content \in Seq(Pairs))'
    BY <1>0, <2>1, <2>2, <2>3, RowsStay
  <2>5. Len(published') \in EventIds
    BY <1>0, <2>2, EventsAssumptions DEF EmitTypes, EventIds
  <2>6. StreamInv'
    BY <1>0, <2>1, <2>2, <2>5, PublishStep
  <2> QED BY <2>2, <2>3, <2>4, <2>6 DEF IInv
<1>7. ASSUME NEW e \in Emitters, Commit(e) PROVE IInv'
  <2>1. UNCHANGED <<published, subs>>
    BY <1>7 DEF Commit
  <2>2. EmitTypes' /\ EmitInv'
    BY <1>0, <1>7, EndsStep
  <2>3. SendInv' /\ (content \in Seq(Pairs))' /\ RowsInv'
    BY <1>0, <1>7, CommitStep
  <2> QED BY <1>4, <2>1, <2>2, <2>3 DEF IInv
<1>8. ASSUME NEW e \in Emitters, Rollback(e) PROVE IInv'
  <2>1. UNCHANGED <<deliveryVars, published, content, committed, subs>>
    BY <1>8 DEF Rollback
  <2>2. EmitTypes' /\ EmitInv'
    BY <1>0, <1>8, EndsStep
  <2> QED BY <1>1, <1>3, <1>4, <2>1, <2>2 DEF IInv
<1>9. ASSUME NEW s \in Subs, Subscribe(s) \/ Stream(s) \/ Leave(s) PROVE IInv'
  <2>1. UNCHANGED <<deliveryVars, published, emitter, content, committed>>
    BY <1>9 DEF Subscribe, Stream, Leave
  <2>2. StreamInv'
    BY <1>0, <1>9, ClientStep, StreamStep
  <2> QED BY <1>1, <1>2, <1>3, <2>1, <2>2 DEF IInv
<1>10. CASE (Send \/ Tick \/ Start) /\ UNCHANGED eventVars
  <2>1. UNCHANGED <<published, emitter, content, committed, subs>>
    BY <1>10 DEF eventVars
  <2>2. SendInv'
    BY <1>0, <1>10, ClaimStep, PostStep, MarkStep, TickStep, SenderRestarts DEF Send
  <2>3. Used' = Used
    BY <1>0, <1>10, SendKeepsRows
  <2> QED BY <1>2, <1>3, <1>4, <2>1, <2>2, <2>3 DEF IInv
<1>11. CASE Crash
  <2>1. /\ Die /\ subs' = [s \in Subs |-> Gone] /\ UNCHANGED <<published, content, committed>>
    BY <1>11 DEF Crash
  <2>2. SendInv' /\ Used' = Used
    BY <1>0, <2>1, SenderRestarts, SendKeepsRows
  <2>3. EmitTypes' /\ EmitInv'
    BY <1>0, <1>11, EmittersDie
  <2>4. StreamInv'
    BY <1>0, <2>1, StreamsDie
  <2> QED BY <1>3, <2>1, <2>2, <2>3, <2>4 DEF IInv
<1>12. CASE UNCHANGED vars
  <2>1. UNCHANGED <<deliveryVars, published, emitter, content, committed, subs>>
    BY <1>12 DEF vars, eventVars
  <2> QED BY <1>1, <1>2, <1>3, <1>4, <2>1 DEF IInv
<1> QED BY <1>5, <1>6, <1>7, <1>8, <1>9, <1>10, <1>11, <1>12 DEF Next, Emission

\* IInv is an invariant of the specification.
LEMMA EventsAlways == Spec => []IInv
BY EventsInit, EventsStep, PTL DEF Spec

-----------------------------------------------------------------------------
(* Theorems *)

\* TypeOK always holds, and so the tables never outgrow their bounds.
THEOREM EventsTypeCorrect == Spec => []TypeOK
<1>1. IInv => TypeOK
  BY EventsAssumptions DEF IInv, SendInv, EmitTypes, Emitter, StreamInv, Sub, Pairs, TypeOK
<1> QED BY <1>1, EventsAlways, PTL

\* DeliveredWasReceived always holds: MarkDelivered is only reached through a post that
\* arrived, with deaths of the process at any point.
THEOREM DeliveryAtLeastOnce == Spec => []DeliveredWasReceived
<1>1. IInv => DeliveredWasReceived
  BY DEF IInv, SendInv, AttemptsInv
<1> QED BY <1>1, EventsAlways, PTL

\* BatchIsFresh always holds: what the sender claimed is what the table still has,
\* for any size of batch, while others add rows.
THEOREM BatchStaysFresh == Spec => []BatchIsFresh
<1>1. IInv => BatchIsFresh
  BY DEF IInv, SendInv, BatchInv
<1> QED BY <1>1, EventsAlways, PTL

\* DeadWasTried always holds: no receiver is given up on more than the last backoff
\* before webhook_retry_window has passed, except after MaxTries attempts, for any cap,
\* window and limit, through deaths and marks that fail.
THEOREM GivenUpAfterWindow == Spec => []DeadWasTried
<1>1. IInv => DeadWasTried
  <2> SUFFICES ASSUME IInv, NEW i \in Rows, outbox[i].state = "dead"
               PROVE  outbox[i].attempts >= MaxTries \/ tried[i] + backoff(maxAttempts) >= RetryWindow
    BY DEF DeadWasTried
  <2> DEFINE a == outbox[i].attempts
             m == maxAttempts
  <2>1. a \in Nat /\ tried[i] \in Nat /\ m <= a
    BY DEF IInv, SendInv, DeliveryTypeOK, AttemptsInv
  <2>2. a # 0 /\ tried[i] >= Total[a - 1]
    BY DEF IInv, SendInv, TimeInv, Waited
  <2>3. m \in Nat \ {0} /\ (m = MaxTries \/ Total[m] >= RetryWindow)
    BY MaxAttempts, DeliveryAssumptions
  <2> HIDE DEF a, m
  <2>4. CASE m = MaxTries
    BY <2>1, <2>3, <2>4 DEF a
  <2>5. CASE Total[m] >= RetryWindow
    <3>1. m - 1 \in Nat /\ a - 1 \in Nat /\ m - 1 <= a - 1
      BY <2>1, <2>2, <2>3
    <3>2. Total[m] = Total[m - 1] + backoff(m)
      BY <2>3, TotalDef
    <3>3. Total[m - 1] <= Total[a - 1]
      BY <3>1, TotalMonotone
    <3>4. Total[m - 1] \in Nat /\ Total[a - 1] \in Nat /\ backoff(m) \in Nat
      BY <2>3, <3>1, TotalGrows, BackoffBounded, DeliveryAssumptions
    <3>5. tried[i] + backoff(m) >= RetryWindow
      BY <2>1, <2>2, <2>5, <3>2, <3>3, <3>4, DeliveryAssumptions
    <3> QED BY <3>5 DEF m
  <2> QED BY <2>3, <2>4, <2>5
<1> QED BY <1>1, EventsAlways, PTL

\* OutboxIsExact always holds: one row for each receiver of each committed event, and
\* no other, whichever emitters interleave, roll back or die.
THEOREM OutboxStaysExact == Spec => []OutboxIsExact
<1>1. IInv => OutboxIsExact
  BY DEF IInv, RowsInv
<1> QED BY <1>1, EventsAlways, PTL

\* LiveStreamIsFaithful always holds, for any number of subscribers and any buffer.
THEOREM StreamStaysFaithful == Spec => []LiveStreamIsFaithful
<1>1. IInv => LiveStreamIsFaithful
  BY StreamFaithful DEF IInv
<1> QED BY <1>1, EventsAlways, PTL

=============================================================================
