-------------------------------- MODULE Sched --------------------------------
(***************************************************************************)
(* internal/sched: smooth weighted round-robin over the queues that are    *)
(* unpaused and not empty, with credits that persist in queue_runtime from *)
(* one pick to the next (Executor.pick, SetRRCredits).  Which queues are   *)
(* candidates changes freely between picks, unless every queue has work    *)
(* all the time (steady).  Queues are numbered in the order of their names. *)
(***************************************************************************)
EXTENDS Integers, FiniteSets, FiniteSetsExt, Functions

CONSTANTS
  Queues,      \* queue numbers
  Weights      \* weights a queue may have (whole numbers)

ASSUME SchedAssumptions ==
  /\ Queues \subseteq Nat /\ IsFiniteSet(Queues)
  /\ Weights \subseteq Nat \ {0}

VARIABLES
  weight,    \* from queues.yaml
  steady,    \* every queue is a candidate at every pick
  credit,    \* queue_runtime.rr_credit
  ran,       \* history: picks of each queue in the current round
  waited     \* history: picks each queue has lost in a row while a candidate

vars == <<weight, steady, credit, ran, waited>>

Sum(f, S) == FoldFunctionOnSet(+, 0, f, S)
Total(S) == Sum(weight, S)

-----------------------------------------------------------------------------
\* Mutant: the winner pays its own weight only.
CreditsOwnWeight(S, w) ==
  [q \in Queues |-> IF q \notin S THEN credit[q]
                    ELSE credit[q] + weight[q] - IF q = w THEN weight[w] ELSE 0]

\* Every candidate gains its weight, the winner pays the total back.
Credits(S, w) ==
  [q \in Queues |-> IF q \notin S THEN credit[q]
                    ELSE credit[q] + weight[q] - IF q = w THEN Total(S) ELSE 0]

\* Mutant: the first queue in order wins ties and losses alike.
WinnerFirst(S) == Min(S)

\* The richest after the gain; the first in name order among equals.
Winner(S) ==
  CHOOSE w \in S : \A q \in S \ {w} :
    \/ credit[w] + weight[w] > credit[q] + weight[q]
    \/ credit[w] + weight[w] = credit[q] + weight[q] /\ w < q

RoundOver == Sum(ran, Queues) = Total(Queues)

Pick(S) ==
  /\ S # {}
  /\ credit' = Credits(S, Winner(S))
  /\ ran' = [q \in Queues |-> (IF RoundOver THEN 0 ELSE ran[q]) + IF q = Winner(S) THEN 1 ELSE 0]
  /\ waited' = [q \in Queues |-> IF q \in S /\ q # Winner(S) THEN waited[q] + 1 ELSE 0]
  /\ UNCHANGED <<weight, steady>>

Init ==
  /\ weight \in [Queues -> Weights]
  /\ steady \in BOOLEAN
  /\ credit = [q \in Queues |-> 0]
  /\ ran = [q \in Queues |-> 0]
  /\ waited = [q \in Queues |-> 0]

Next == \E S \in IF steady THEN {Queues} ELSE SUBSET Queues : Pick(S)

Spec == Init /\ [][Next]_vars

-----------------------------------------------------------------------------
(* Properties *)

\* Credits are only moved between queues: nothing is gained or lost by queues
\* coming and going, so no queue's standing drifts away.
CreditsBalance == Sum(credit, Queues) = 0

\* "Each queue runs in proportion to its weight": with the same candidates
\* throughout, a round of total-weight picks gives each queue exactly its weight.
Proportional == steady /\ RoundOver => ran = weight

\* A queue with work is not starved, even if the others come and go as they
\* please: what it would have earned in the picks it lost is bounded by the
\* number of queues and the greatest weight, however long the service runs.
Heaviest == Max({weight[q] : q \in Queues})
NotStarved ==
  \A q \in Queues : waited[q] * weight[q] <= 2 * (Cardinality(Queues) - 1) * Heaviest

=============================================================================
