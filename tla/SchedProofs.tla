----------------------------- MODULE SchedProofs -----------------------------
(***************************************************************************)
(* Proofs about Sched, for any finite set of queues and any whole weights: *)
(* credits balance, a steady round is proportional, and no candidate is    *)
(* starved however the others come and go.                                 *)
(***************************************************************************)
EXTENDS Sched, FiniteSetTheorems, NaturalsInduction, WellFoundedInduction, TLAPS

TypeOK ==
  /\ weight \in [Queues -> Weights]
  /\ steady \in BOOLEAN
  /\ credit \in [Queues -> Int]
  /\ ran \in [Queues -> Nat]
  /\ waited \in [Queues -> Nat]

\* No group of queues holds more than this together.
Most(T) == Heaviest * (Cardinality(T) * (Cardinality(Queues) - Cardinality(T)))
CreditsBounded == Queues # {} => \A T \in SUBSET Queues : Sum(credit, T) <= Most(T)

\* What a queue would have earned in the picks it lost is in its credit.
WaitInv == \A q \in Queues : waited[q] * weight[q] <= credit[q] + Heaviest * (Cardinality(Queues) - 1)

\* In a steady round the credit is what was earned less what was paid, and no
\* queue is a whole round in debt.
Picks == Sum(ran, Queues)
RoundInv ==
  steady => /\ Picks <= Total(Queues)
            /\ \A q \in Queues : /\ credit[q] = Picks * weight[q] - Total(Queues) * ran[q]
                                 /\ credit[q] > -Total(Queues)

SchedInv == TypeOK /\ CreditsBalance /\ CreditsBounded /\ WaitInv /\ RoundInv

-----------------------------------------------------------------------------
(* Induction over numbers and over the subsets of a finite set *)

\* A set of numbers that is not empty has a least one.
LEMMA Least ==
  ASSUME NEW T \in SUBSET Nat, T # {}
  PROVE  \E x \in T : \A y \in T : x <= y
<1> DEFINE R == OpToRel(<, Nat)
<1>1. IsWellFoundedOn(R, Nat)
  BY NatLessThanWellFounded
<1>2. \A x, y \in Nat : x < y => <<x, y>> \in R
  BY DEF OpToRel
<1> HIDE DEF R
<1>3. PICK x \in T : \A y \in T : ~(<<y, x>> \in R)
  BY <1>1, WFMin
<1>4. ASSUME NEW y \in T PROVE x <= y
  <2>1. x \in Nat /\ y \in Nat /\ ~(<<y, x>> \in R)
    BY <1>3
  <2>2. ~(y < x)
    BY <1>2, <2>1
  <2> QED BY <2>1, <2>2
<1> QED BY <1>4

\* Induction, for a set of numbers.
LEMMA Induct ==
  ASSUME NEW T \in SUBSET Nat, 0 \in T, \A n \in T : n + 1 \in T
  PROVE  T = Nat
<1> SUFFICES ASSUME Nat \ T # {} PROVE FALSE
  OBVIOUS
<1>1. PICK x \in Nat \ T : \A y \in Nat \ T : x <= y
  BY Least
<1>2. x # 0 /\ x - 1 \in Nat
  BY <1>1
<1>3. x - 1 \in T
  BY <1>1, <1>2
<1> QED BY <1>1, <1>2, <1>3

\* A property of subsets, given as the set of those that have it, holds of all
\* if it passes from a subset less one element to the subset.
LEMMA SubsetInduct ==
  ASSUME NEW Q, IsFiniteSet(Q), NEW F,
         \A s \in SUBSET Q : (\A x \in s : s \ {x} \in F) => s \in F
  PROVE  \A s \in SUBSET Q : s \in F
<1> DEFINE B == (SUBSET Q) \ F
           N == {n \in Nat : \E s \in B : Cardinality(s) = n}
<1> SUFFICES ASSUME B # {} PROVE FALSE
  OBVIOUS
<1>1. \A s \in SUBSET Q : IsFiniteSet(s) /\ Cardinality(s) \in Nat
  BY FS_Subset, FS_CardinalityType
<1>2. N \in SUBSET Nat /\ N # {}
  BY <1>1
<1>3. PICK n \in N : \A m \in N : n <= m
  BY <1>2, Least
<1>4. PICK s \in B : Cardinality(s) = n
  BY <1>3
<1>5. ASSUME NEW x \in s PROVE s \ {x} \in F
  <2>1. s \ {x} \in SUBSET Q /\ Cardinality(s \ {x}) = n - 1
    BY <1>1, <1>4, FS_RemoveElement
  <2>2. n - 1 \in Nat /\ n \in Nat
    BY <1>1, <1>3, <2>1
  <2>3. n - 1 \notin N
    BY <1>3, <2>2
  <2>4. s \ {x} \notin B
    BY <2>1, <2>2, <2>3
  <2> QED BY <2>1, <2>4
<1> QED BY <1>4, <1>5

-----------------------------------------------------------------------------
(* Sums *)

First(s) == CHOOSE x \in s : TRUE

\* The equation that the fold in Sum solves.
Folds(f, S, it) ==
  it = [s \in SUBSET S |-> IF s = {} THEN 0 ELSE f[First(s)] + it[s \ {First(s)}]]

LEMMA FirstIn == ASSUME NEW s, s # {} PROVE First(s) \in s
BY DEF First

\* Sum is the value of a solution.
LEMMA SumIsFold ==
  ASSUME NEW f, NEW S
  PROVE  Sum(f, S) = (CHOOSE it : Folds(f, S, it))[S]
BY DEF Sum, FoldFunctionOnSet, MapThenFoldSet, Folds, First

\* A solution that gives the sums over all subsets.
Solves(f, Q, it) ==
  /\ it \in [SUBSET Q -> Int]
  /\ Folds(f, Q, it)
  /\ \A S \in SUBSET Q : Sum(f, S) = it[S]

\* One solution, on the subsets of the whole set, gives every sum.
LEMMA SumSolution ==
  ASSUME NEW Q, IsFiniteSet(Q), NEW f \in [Q -> Int]
  PROVE  \E it : Solves(f, Q, it)
<1> DEFINE Rec(it, s) == IF s = {} THEN 0 ELSE f[First(s)] + it[s \ {First(s)}]
           Upto(it, n) == \A s \in SUBSET Q : Cardinality(s) <= n => it[s] = Rec(it, s)
           E == {n \in Nat : \E it \in [SUBSET Q -> Int] : Upto(it, n)}
<1>0. \A s \in SUBSET Q : IsFiniteSet(s) /\ Cardinality(s) \in Nat /\ (Cardinality(s) = 0 => s = {})
  BY FS_Subset, FS_CardinalityType, FS_EmptySet
<1>c. \A s \in SUBSET Q : s # {} => /\ First(s) \in Q /\ s \ {First(s)} \in SUBSET Q
                                   /\ Cardinality(s \ {First(s)}) = Cardinality(s) - 1
  BY <1>0, FirstIn, FS_RemoveElement
<1>1. 0 \in E
  <2> DEFINE z == [s \in SUBSET Q |-> 0]
  <2>1. Upto(z, 0)
    BY <1>0
  <2>2. z \in [SUBSET Q -> Int]
    OBVIOUS
  <2> HIDE DEF z, Upto
  <2> QED BY <2>1, <2>2
<1>2. ASSUME NEW n \in E PROVE n + 1 \in E
  <2>1. PICK it \in [SUBSET Q -> Int] : Upto(it, n)
    OBVIOUS
  <2> DEFINE g == [s \in SUBSET Q |-> Rec(it, s)]
  <2>2. g \in [SUBSET Q -> Int]
    <3>1. ASSUME NEW s \in SUBSET Q PROVE Rec(it, s) \in Int
      <4>1. CASE s # {}
        <5>1. f[First(s)] \in Int /\ it[s \ {First(s)}] \in Int
          BY <1>c, <4>1
        <5> QED BY <4>1, <5>1
      <4> QED BY <4>1
    <3> HIDE DEF Rec
    <3> QED BY <3>1
  <2>3. ASSUME NEW s \in SUBSET Q, Cardinality(s) <= n + 1 PROVE g[s] = Rec(g, s)
    <3>1. CASE s = {}
      BY <3>1
    <3>2. CASE s # {}
      <4> DEFINE r == s \ {First(s)}
      <4>1. r \in SUBSET Q /\ Cardinality(r) <= n
        BY <1>0, <1>c, <2>3, <3>2
      <4>2. g[r] = it[r]
        BY <2>1, <4>1
      <4> QED BY <3>2, <4>2
    <3> QED BY <3>1, <3>2
  <2>4. Upto(g, n + 1)
    BY <2>3
  <2> HIDE DEF g, Upto
  <2> QED BY <2>2, <2>4
<1>3. E = Nat
  <2> HIDE DEF E
  <2> QED BY <1>1, <1>2, Induct DEF E
<1>4. PICK it \in [SUBSET Q -> Int] : Upto(it, Cardinality(Q))
  BY <1>0, <1>3
<1>5. \A s \in SUBSET Q : it[s] = Rec(it, s)
  BY <1>4, FS_Subset
<1>6. Folds(f, Q, it)
  BY <1>5 DEF Folds
<1>7. ASSUME NEW S \in SUBSET Q PROVE Sum(f, S) = it[S]
  <2> DEFINE own == CHOOSE i : Folds(f, S, i)
             cut == [s \in SUBSET S |-> it[s]]
  <2>1. Folds(f, S, cut)
    <3>1. ASSUME NEW s \in SUBSET S PROVE cut[s] = IF s = {} THEN 0 ELSE f[First(s)] + cut[s \ {First(s)}]
      <4>1. s \in SUBSET Q /\ s \ {First(s)} \in SUBSET S
        OBVIOUS
      <4> QED BY <1>5, <4>1
    <3> QED BY <3>1 DEF Folds
  <2>2. Folds(f, S, own)
    BY <2>1
  <2>3. \A s \in SUBSET S : own[s] = Rec(own, s)
    BY <2>2 DEF Folds
  <2> HIDE DEF own
  <2> DEFINE F == {s \in SUBSET S : own[s] = it[s]}
  <2>4. ASSUME NEW s \in SUBSET S, \A x \in s : s \ {x} \in F PROVE s \in F
    <3>1. CASE s = {}
      BY <1>5, <2>3, <3>1
    <3>2. CASE s # {}
      <4>1. First(s) \in s
        BY <3>2, FirstIn
      <4>2. own[s \ {First(s)}] = it[s \ {First(s)}]
        BY <2>4, <4>1
      <4>3. own[s] = f[First(s)] + own[s \ {First(s)}]
        BY <2>3, <3>2
      <4>4. it[s] = f[First(s)] + it[s \ {First(s)}]
        BY <1>5, <3>2
      <4> QED BY <4>2, <4>3, <4>4
    <3> QED BY <3>1, <3>2
  <2>5. S \in F
    <3>1. IsFiniteSet(S)
      BY <1>0
    <3>2. \A s \in SUBSET S : (\A x \in s : s \ {x} \in F) => s \in F
      BY <2>4
    <3> HIDE DEF F
    <3> QED BY <3>1, <3>2, SubsetInduct
  <2>6. own[S] = it[S]
    BY <2>5
  <2> QED BY <2>6, SumIsFold DEF own
<1> QED BY <1>6, <1>7 DEF Solves

\* The sum over nothing is zero, and any element may be taken out first.
LEMMA SumStep ==
  ASSUME NEW Q, IsFiniteSet(Q), NEW f \in [Q -> Int]
  PROVE  /\ Sum(f, {}) = 0
         /\ \A S \in SUBSET Q : /\ Sum(f, S) \in Int
                                /\ \A x \in S : Sum(f, S) = f[x] + Sum(f, S \ {x})
<1>0. PICK it : Solves(f, Q, it)
  BY SumSolution
<1>1. /\ it \in [SUBSET Q -> Int] /\ Folds(f, Q, it)
      /\ \A S \in SUBSET Q : Sum(f, S) = it[S]
  BY <1>0 DEF Solves
<1>2. Sum(f, {}) = 0
  <2>1. {} \in SUBSET Q
    OBVIOUS
  <2>2. it[{}] = 0
    BY <1>1, <2>1 DEF Folds
  <2> QED BY <1>1, <2>1, <2>2
<1>3. \A S \in SUBSET Q : Sum(f, S) \in Int
  BY <1>1
<1>4. ASSUME NEW S \in SUBSET Q, S # {}
      PROVE  First(S) \in S /\ Sum(f, S) = f[First(S)] + Sum(f, S \ {First(S)})
  <2>1. First(S) \in S /\ S \ {First(S)} \in SUBSET Q
    BY <1>4, FirstIn
  <2>2. it[S] = f[First(S)] + it[S \ {First(S)}]
    BY <1>1, <1>4 DEF Folds
  <2> QED BY <1>1, <2>1, <2>2
<1> DEFINE F == {S \in SUBSET Q : \A x \in S : Sum(f, S) = f[x] + Sum(f, S \ {x})}
<1>5. ASSUME NEW S \in SUBSET Q, \A x \in S : S \ {x} \in F PROVE S \in F
  <2> SUFFICES ASSUME NEW x \in S PROVE Sum(f, S) = f[x] + Sum(f, S \ {x})
    OBVIOUS
  <2> DEFINE c == First(S)
  <2>1. c \in S /\ Sum(f, S) = f[c] + Sum(f, S \ {c})
    BY <1>4
  <2> HIDE DEF c
  <2>2. CASE x # c
    <3> DEFINE r == Sum(f, S \ {c, x})
    <3>1. (S \ {c}) \ {x} = S \ {c, x} /\ (S \ {x}) \ {c} = S \ {c, x} /\ S \ {c, x} \in SUBSET Q
      OBVIOUS
    <3>2. Sum(f, S \ {c}) = f[x] + r
      BY <1>5, <2>1, <2>2, <3>1
    <3>3. Sum(f, S \ {x}) = f[c] + r
      BY <1>5, <2>1, <2>2, <3>1
    <3>4. f[x] \in Int /\ f[c] \in Int /\ r \in Int
      BY <1>3, <2>1, <3>1
    <3> HIDE DEF r
    <3> QED BY <2>1, <3>2, <3>3, <3>4
  <2> QED BY <2>1, <2>2
<1>6. \A S \in SUBSET Q : S \in F
  <2>1. \A S \in SUBSET Q : (\A x \in S : S \ {x} \in F) => S \in F
    BY <1>5
  <2> HIDE DEF F
  <2> QED BY <2>1, SubsetInduct
<1> QED BY <1>2, <1>3, <1>6

\* A sum over two sets that do not meet is the sum of their sums.
LEMMA SumUnion ==
  ASSUME NEW Q, IsFiniteSet(Q), NEW f \in [Q -> Int], NEW A \in SUBSET Q
  PROVE  \A B \in SUBSET (Q \ A) : Sum(f, A \cup B) = Sum(f, A) + Sum(f, B)
<1> DEFINE F == {B \in SUBSET (Q \ A) : Sum(f, A \cup B) = Sum(f, A) + Sum(f, B)}
<1>0. IsFiniteSet(Q \ A)
  BY FS_Subset
<1>1. ASSUME NEW B \in SUBSET (Q \ A), \A x \in B : B \ {x} \in F PROVE B \in F
  <2>1. CASE B = {}
    <3>1. A \cup B = A /\ Sum(f, B) = 0 /\ Sum(f, A) \in Int
      BY <2>1, SumStep
    <3> QED BY <3>1
  <2>2. ASSUME NEW x \in B PROVE B \in F
    <3>1. (A \cup B) \ {x} = A \cup (B \ {x}) /\ A \cup B \in SUBSET Q /\ B \in SUBSET Q /\ B \ {x} \in SUBSET Q
      OBVIOUS
    <3>2. Sum(f, A \cup B) = f[x] + Sum(f, A \cup (B \ {x}))
      BY <3>1, SumStep
    <3>3. Sum(f, B) = f[x] + Sum(f, B \ {x})
      BY <3>1, SumStep
    <3>4. Sum(f, A \cup (B \ {x})) = Sum(f, A) + Sum(f, B \ {x})
      BY <1>1
    <3>5. f[x] \in Int /\ Sum(f, A) \in Int /\ Sum(f, B \ {x}) \in Int
      BY <3>1, SumStep
    <3> QED BY <3>2, <3>3, <3>4, <3>5
  <2> QED BY <2>1, <2>2
<1>2. \A B \in SUBSET (Q \ A) : (\A x \in B : B \ {x} \in F) => B \in F
  BY <1>1
<1>3. \A B \in SUBSET (Q \ A) : B \in F
  <2> HIDE DEF F
  <2> QED BY <1>0, <1>2, SubsetInduct
<1> QED BY <1>3

\* A sum of values of at most b is at most b for each element.
LEMMA SumBound ==
  ASSUME NEW Q, IsFiniteSet(Q), NEW f \in [Q -> Int], NEW b \in Int, NEW S \in SUBSET Q,
         \A x \in S : f[x] <= b
  PROVE  Sum(f, S) <= b * Cardinality(S)
<1> DEFINE F == {T \in SUBSET S : Sum(f, T) <= b * Cardinality(T)}
<1>0. IsFiniteSet(S) /\ \A T \in SUBSET S : IsFiniteSet(T) /\ Cardinality(T) \in Nat
  BY FS_Subset, FS_CardinalityType
<1>1. ASSUME NEW T \in SUBSET S, \A x \in T : T \ {x} \in F PROVE T \in F
  <2>1. CASE T = {}
    <3>1. Sum(f, T) = 0 /\ Cardinality(T) = 0
      BY <2>1, SumStep, FS_EmptySet
    <3> QED BY <3>1
  <2>2. ASSUME NEW x \in T PROVE T \in F
    <3>1. T \in SUBSET Q /\ T \ {x} \in SUBSET Q /\ f[x] \in Int /\ f[x] <= b
      OBVIOUS
    <3>2. Sum(f, T) = f[x] + Sum(f, T \ {x}) /\ Sum(f, T \ {x}) \in Int
      BY <3>1, SumStep
    <3>3. Sum(f, T \ {x}) <= b * Cardinality(T \ {x})
      BY <1>1
    <3>4. Cardinality(T \ {x}) = Cardinality(T) - 1 /\ Cardinality(T) \in Nat
      BY <1>0, FS_RemoveElement
    <3>5. ASSUME NEW n \in Nat PROVE b * (n - 1) = b * n - b /\ b * n \in Int
      OBVIOUS
    <3> QED BY <3>1, <3>2, <3>3, <3>4, <3>5
  <2> QED BY <2>1, <2>2
<1>2. \A T \in SUBSET S : (\A x \in T : T \ {x} \in F) => T \in F
  BY <1>1
<1>3. S \in F
  <2> HIDE DEF F
  <2> QED BY <1>0, <1>2, SubsetInduct
<1> QED BY <1>3

\* A sum of values that are not negative is not negative.
LEMMA SumNonnegative ==
  ASSUME NEW Q, IsFiniteSet(Q), NEW f \in [Q -> Int], \A x \in Q : f[x] >= 0
  PROVE  \A S \in SUBSET Q : Sum(f, S) >= 0
<1> DEFINE F == {S \in SUBSET Q : Sum(f, S) >= 0}
<1>1. ASSUME NEW S \in SUBSET Q, \A x \in S : S \ {x} \in F PROVE S \in F
  <2>1. CASE S = {}
    <3>1. Sum(f, S) = 0
      BY <2>1, SumStep
    <3> QED BY <3>1
  <2>2. ASSUME NEW x \in S PROVE S \in F
    <3>1. Sum(f, S) = f[x] + Sum(f, S \ {x}) /\ f[x] \in Int /\ f[x] >= 0
      BY SumStep
    <3>2. Sum(f, S \ {x}) >= 0 /\ Sum(f, S \ {x}) \in Int
      BY <1>1, SumStep
    <3> QED BY <3>1, <3>2
  <2> QED BY <2>1, <2>2
<1>2. \A S \in SUBSET Q : (\A x \in S : S \ {x} \in F) => S \in F
  BY <1>1
<1>3. \A S \in SUBSET Q : S \in F
  <2> HIDE DEF F
  <2> QED BY <1>2, SubsetInduct
<1> QED BY <1>3

\* A sum depends on the values over its set only.
LEMMA SumAgrees ==
  ASSUME NEW Q, IsFiniteSet(Q), NEW f \in [Q -> Int], NEW g \in [Q -> Int],
         NEW S \in SUBSET Q, \A x \in S : f[x] = g[x]
  PROVE  Sum(f, S) = Sum(g, S)
<1> DEFINE F == {T \in SUBSET S : Sum(f, T) = Sum(g, T)}
<1>1. ASSUME NEW T \in SUBSET S, \A x \in T : T \ {x} \in F PROVE T \in F
  <2>1. CASE T = {}
    <3>1. Sum(f, T) = 0 /\ Sum(g, T) = 0
      BY <2>1, SumStep
    <3> QED BY <3>1
  <2>2. ASSUME NEW x \in T PROVE T \in F
    <3>1. T \in SUBSET Q /\ f[x] = g[x]
      OBVIOUS
    <3>2. Sum(f, T) = f[x] + Sum(f, T \ {x}) /\ Sum(g, T) = g[x] + Sum(g, T \ {x})
      BY <3>1, SumStep
    <3>3. Sum(f, T \ {x}) = Sum(g, T \ {x})
      BY <1>1
    <3> QED BY <3>1, <3>2, <3>3
  <2> QED BY <2>1, <2>2
<1>2. \A T \in SUBSET S : (\A x \in T : T \ {x} \in F) => T \in F
  BY <1>1
<1>3. S \in F
  <2>1. IsFiniteSet(S)
    BY FS_Subset
  <2> HIDE DEF F
  <2> QED BY <1>2, <2>1, SubsetInduct
<1> QED BY <1>3

\* A sum of zeros is zero.
LEMMA SumOfZeros ==
  ASSUME NEW Q, IsFiniteSet(Q), NEW S \in SUBSET Q
  PROVE  Sum([q \in Q |-> 0], S) = 0
<1> DEFINE z == [q \in Q |-> 0]
<1>1. z \in [Q -> Int] /\ (\A x \in Q : z[x] >= 0) /\ (\A x \in S : z[x] <= 0)
  OBVIOUS
<1> HIDE DEF z
<1>2. Sum(z, S) >= 0
  BY <1>1, SumNonnegative
<1>3. Sum(z, S) <= 0 * Cardinality(S)
  BY <1>1, SumBound
<1>4. Sum(z, S) \in Int /\ Cardinality(S) \in Nat
  BY <1>1, SumStep, FS_Subset, FS_CardinalityType
<1>5. Sum(z, S) = 0
  BY <1>2, <1>3, <1>4
<1> QED BY <1>5 DEF z

\* One more at one place is one more in the sum.
LEMMA SumPlusOne ==
  ASSUME NEW Q, IsFiniteSet(Q), NEW f \in [Q -> Int], NEW g \in [Q -> Int], NEW w \in Q,
         \A q \in Q : g[q] = f[q] + IF q = w THEN 1 ELSE 0
  PROVE  Sum(g, Q) = Sum(f, Q) + 1
<1>1. Q \in SUBSET Q /\ Q \ {w} \in SUBSET Q
  OBVIOUS
<1>2. Sum(f, Q) = f[w] + Sum(f, Q \ {w}) /\ Sum(g, Q) = g[w] + Sum(g, Q \ {w})
  BY <1>1, SumStep
<1>3. \A q \in Q \ {w} : f[q] = g[q]
  OBVIOUS
<1>4. Sum(f, Q \ {w}) = Sum(g, Q \ {w}) /\ Sum(f, Q \ {w}) \in Int
  BY <1>1, <1>3, SumAgrees, SumStep
<1>5. g[w] = f[w] + 1 /\ f[w] \in Int
  OBVIOUS
<1> QED BY <1>2, <1>4, <1>5

\* A sum grows with its values; when it does not, none of them has grown.
LEMMA SumLeq ==
  ASSUME NEW Q, IsFiniteSet(Q), NEW f \in [Q -> Int], NEW g \in [Q -> Int],
         \A x \in Q : f[x] <= g[x]
  PROVE  /\ \A S \in SUBSET Q : Sum(f, S) <= Sum(g, S)
         /\ Sum(f, Q) = Sum(g, Q) => \A x \in Q : f[x] = g[x]
<1> DEFINE F == {S \in SUBSET Q : Sum(f, S) <= Sum(g, S)}
<1>0. ASSUME NEW S \in SUBSET Q, NEW x \in S
      PROVE  /\ Sum(f, S) = f[x] + Sum(f, S \ {x}) /\ Sum(g, S) = g[x] + Sum(g, S \ {x})
             /\ Sum(f, S \ {x}) \in Int /\ Sum(g, S \ {x}) \in Int
             /\ f[x] \in Int /\ g[x] \in Int /\ f[x] <= g[x]
  <2>1. S \ {x} \in SUBSET Q
    OBVIOUS
  <2> QED BY <2>1, SumStep
<1>1. ASSUME NEW S \in SUBSET Q, \A x \in S : S \ {x} \in F PROVE S \in F
  <2>1. CASE S = {}
    <3>1. Sum(f, S) = 0 /\ Sum(g, S) = 0
      BY <2>1, SumStep
    <3> QED BY <3>1
  <2>2. ASSUME NEW x \in S PROVE S \in F
    <3>1. Sum(f, S \ {x}) <= Sum(g, S \ {x})
      BY <1>1
    <3> QED BY <1>0, <3>1
  <2> QED BY <2>1, <2>2
<1>2. \A S \in SUBSET Q : (\A x \in S : S \ {x} \in F) => S \in F
  BY <1>1
<1>3. \A S \in SUBSET Q : S \in F
  <2> HIDE DEF F
  <2> QED BY <1>2, SubsetInduct
<1>4. ASSUME Sum(f, Q) = Sum(g, Q), NEW x \in Q PROVE f[x] = g[x]
  <2>1. Sum(f, Q \ {x}) <= Sum(g, Q \ {x})
    BY <1>3
  <2>2. Q \in SUBSET Q
    OBVIOUS
  <2> QED BY <1>0, <1>4, <2>1, <2>2
<1> QED BY <1>3, <1>4

-----------------------------------------------------------------------------
(* One pick *)

\* A finite set of numbered values has a greatest one, the first among equals.
LEMMA BestExists ==
  ASSUME NEW Q \in SUBSET Nat, IsFiniteSet(Q), NEW v \in [Q -> Int]
  PROVE  \A S \in SUBSET Q : S # {} =>
           \E w \in S : \A q \in S \ {w} : v[w] > v[q] \/ (v[w] = v[q] /\ w < q)
<1> DEFINE Best(S, w) == \A q \in S \ {w} : v[w] > v[q] \/ (v[w] = v[q] /\ w < q)
           F == {S \in SUBSET Q : S # {} => \E w \in S : Best(S, w)}
<1>1. ASSUME NEW S \in SUBSET Q, \A x \in S : S \ {x} \in F PROVE S \in F
  <2>1. CASE S = {}
    BY <2>1
  <2>2. ASSUME NEW x \in S PROVE \E w \in S : Best(S, w)
    <3>1. CASE S \ {x} = {}
      BY <3>1
    <3>2. CASE S \ {x} # {}
      <4>1. PICK w \in S \ {x} : Best(S \ {x}, w)
        BY <1>1, <3>2
      <4>2. /\ w \in Nat /\ x \in Nat /\ w # x /\ w \in S
            /\ v[w] \in Int /\ v[x] \in Int
            /\ \A q \in S : q \in Nat /\ v[q] \in Int
        BY <4>1
      <4>3. CASE v[w] > v[x] \/ (v[w] = v[x] /\ w < x)
        <5>1. Best(S, w)
          BY <4>1, <4>3
        <5> QED BY <4>2, <5>1
      <4>4. CASE ~(v[w] > v[x] \/ (v[w] = v[x] /\ w < x))
        <5>1. v[x] > v[w] \/ (v[x] = v[w] /\ x < w)
          BY <4>2, <4>4
        <5>2. ASSUME NEW q \in S \ {x} PROVE v[x] > v[q] \/ (v[x] = v[q] /\ x < q)
          <6>1. q = w \/ v[w] > v[q] \/ (v[w] = v[q] /\ w < q)
            BY <4>1
          <6> QED BY <4>2, <5>1, <6>1
        <5> QED BY <5>2
      <4> QED BY <4>3, <4>4
    <3> QED BY <3>1, <3>2
  <2> QED BY <2>1, <2>2
<1>2. \A S \in SUBSET Q : (\A x \in S : S \ {x} \in F) => S \in F
  BY <1>1
<1>3. \A S \in SUBSET Q : S \in F
  <2> HIDE DEF F
  <2> QED BY <1>2, SubsetInduct
<1> QED BY <1>3

\* Weights are positive numbers.
LEMMA WeightTypes ==
  ASSUME TypeOK
  PROVE  weight \in [Queues -> Int] /\ \A q \in Queues : weight[q] \in Nat \ {0}
<1>1. \A q \in Queues : weight[q] \in Weights
  BY DEF TypeOK
<1>2. \A q \in Queues : weight[q] \in Nat \ {0}
  BY <1>1, SchedAssumptions
<1>3. weight = [q \in Queues |-> weight[q]]
  BY DEF TypeOK
<1> QED BY <1>2, <1>3

\* The winner is a candidate, and none is richer after the gain.
LEMMA WinnerIsRichest ==
  ASSUME TypeOK, NEW S \in SUBSET Queues, S # {}
  PROVE  /\ Winner(S) \in S
         /\ \A q \in S : credit[q] + weight[q] <= credit[Winner(S)] + weight[Winner(S)]
<1> DEFINE v == [q \in Queues |-> credit[q] + weight[q]]
           w == Winner(S)
<1>1. v \in [Queues -> Int]
  BY WeightTypes DEF TypeOK
<1>2. \E u \in S : \A q \in S \ {u} : v[u] > v[q] \/ (v[u] = v[q] /\ u < q)
  <2> HIDE DEF v
  <2> QED BY <1>1, BestExists, SchedAssumptions
<1>3. \E u \in S : \A q \in S \ {u} : \/ credit[u] + weight[u] > credit[q] + weight[q]
                                      \/ credit[u] + weight[u] = credit[q] + weight[q] /\ u < q
  BY <1>2
<1>4. w \in S /\ \A q \in S \ {w} : \/ credit[w] + weight[w] > credit[q] + weight[q]
                                    \/ credit[w] + weight[w] = credit[q] + weight[q] /\ w < q
  BY <1>3 DEF Winner
<1> HIDE DEF w
<1>5. \A q \in S : credit[q] \in Int /\ weight[q] \in Int
  BY WeightTypes DEF TypeOK
<1>6. ASSUME NEW q \in S PROVE credit[q] + weight[q] <= credit[w] + weight[w]
  BY <1>4, <1>5
<1> QED BY <1>4, <1>6 DEF w

\* The greatest weight is one of the weights.
LEMMA HeaviestBounds ==
  ASSUME TypeOK, Queues # {}
  PROVE  Heaviest \in Nat /\ \A q \in Queues : weight[q] <= Heaviest
<1> DEFINE W == {weight[q] : q \in Queues}
<1>1. weight \in [Queues -> Int] /\ \A q \in Queues : weight[q] \in Nat
  BY WeightTypes
<1>2. PICK m \in Queues : \A q \in Queues \ {m} : weight[m] > weight[q] \/ (weight[m] = weight[q] /\ m < q)
  <2>1. Queues \in SUBSET Queues
    OBVIOUS
  <2> QED BY <1>1, <2>1, BestExists, SchedAssumptions
<1>3. weight[m] \in W /\ \A y \in W : weight[m] >= y
  BY <1>1, <1>2
<1>4. Max(W) \in W /\ \A y \in W : Max(W) >= y
  <2> HIDE DEF W
  <2> QED BY <1>3 DEF Max
<1> QED BY <1>1, <1>4 DEF Heaviest

\* Totals are numbers.
LEMMA TotalType ==
  ASSUME TypeOK, NEW S \in SUBSET Queues
  PROVE  Total(S) \in Int
BY WeightTypes, SumStep, SchedAssumptions DEF Total

\* What a pick does to the credits of any group of queues.
LEMMA CreditSums ==
  ASSUME TypeOK, NEW S \in SUBSET Queues, NEW w \in S
  PROVE  /\ Credits(S, w) \in [Queues -> Int]
         /\ \A T \in SUBSET Queues :
              Sum(Credits(S, w), T) =
                Sum(credit, T) + Total(T \cap S) - IF w \in T THEN Total(S) ELSE 0
<1> DEFINE new == Credits(S, w)
           F == {T \in SUBSET Queues :
                   Sum(new, T) = Sum(credit, T) + Total(T \cap S) - IF w \in T THEN Total(S) ELSE 0}
<1>0. /\ weight \in [Queues -> Int] /\ credit \in [Queues -> Int] /\ IsFiniteSet(Queues)
      /\ \A T \in SUBSET Queues : Total(T) \in Int
  BY WeightTypes, TotalType, SchedAssumptions DEF TypeOK
<1>1. new \in [Queues -> Int]
  BY <1>0 DEF Credits
<1>2. \A q \in Queues : new[q] = IF q \notin S THEN credit[q]
                                 ELSE credit[q] + weight[q] - IF q = w THEN Total(S) ELSE 0
  BY DEF Credits
<1> HIDE DEF new
<1>3. ASSUME NEW T \in SUBSET Queues, \A x \in T : T \ {x} \in F PROVE T \in F
  <2>1. CASE T = {}
    <3>1. T \cap S = {} /\ Sum(new, T) = 0 /\ Sum(credit, T) = 0 /\ w \notin T
      BY <1>0, <1>1, <2>1, SumStep
    <3>2. Total(T \cap S) = 0
      BY <1>0, <3>1, SumStep DEF Total
    <3> QED BY <3>1, <3>2
  <2>2. ASSUME NEW x \in T PROVE T \in F
    <3> DEFINE U == T \ {x}
               n == Sum(new, U)
               c == Sum(credit, U)
               t == Total(U \cap S)
    <3>1. U \in SUBSET Queues /\ U \cap S \in SUBSET Queues /\ T \cap S \in SUBSET Queues
      OBVIOUS
    <3>2. n \in Int /\ c \in Int /\ t \in Int /\ new[x] \in Int /\ credit[x] \in Int /\ weight[x] \in Int /\ Total(S) \in Int
      BY <1>0, <1>1, <3>1, SumStep
    <3>3. Sum(new, T) = new[x] + n /\ Sum(credit, T) = credit[x] + c
      BY <1>0, <1>1, SumStep
    <3>4. n = c + t - IF w \in U THEN Total(S) ELSE 0
      BY <1>3
    <3>5. CASE x \notin S
      <4>1. T \cap S = U \cap S /\ (w \in T <=> w \in U)
        BY <3>5
      <4> HIDE DEF n, c, t, U
      <4>2. new[x] = credit[x] /\ Total(T \cap S) = t
        BY <1>2, <3>5, <4>1 DEF t
      <4>3. Sum(new, T) = Sum(credit, T) + Total(T \cap S) - IF w \in T THEN Total(S) ELSE 0
        BY <3>2, <3>3, <3>4, <4>1, <4>2
      <4> QED BY <4>3
    <3>6. CASE x \in S
      <4>1. x \in T \cap S /\ (T \cap S) \ {x} = U \cap S
        BY <3>6
      <4>2. Total(T \cap S) = weight[x] + t
        BY <1>0, <3>1, <4>1, SumStep DEF Total
      <4>3. new[x] = credit[x] + weight[x] - IF x = w THEN Total(S) ELSE 0
        BY <1>2, <3>6
      <4>4. w \in T <=> (w \in U \/ x = w)
        OBVIOUS
      <4>5. ~(w \in U /\ x = w)
        OBVIOUS
      <4> HIDE DEF n, c, t, U
      <4>6. Sum(new, T) = Sum(credit, T) + Total(T \cap S) - IF w \in T THEN Total(S) ELSE 0
        BY <3>2, <3>3, <3>4, <4>2, <4>3, <4>4, <4>5
      <4> QED BY <4>6
    <3> QED BY <3>5, <3>6
  <2> QED BY <2>1, <2>2
<1>4. \A T \in SUBSET Queues : (\A x \in T : T \ {x} \in F) => T \in F
  BY <1>3
<1>5. \A T \in SUBSET Queues : T \in F
  <2> HIDE DEF F
  <2> QED BY <1>0, <1>4, SubsetInduct
<1> QED BY <1>1, <1>5 DEF new

-----------------------------------------------------------------------------
(* The bound on credits *)

\* Products and order.
LEMMA TimesMonotone ==
  ASSUME NEW k \in Nat, NEW x \in Int, NEW y \in Int, x <= y
  PROVE  k * x <= k * y
OBVIOUS

LEMMA TimesCancel ==
  ASSUME NEW k \in Nat \ {0}, NEW x \in Int, NEW y \in Int, k * x <= k * y
  PROVE  x <= y
<1> SUFFICES ASSUME y + 1 <= x PROVE FALSE
  OBVIOUS
<1>1. k * (y + 1) <= k * x
  BY TimesMonotone
<1>2. k * (y + 1) = k * y + k /\ k * y \in Int /\ k * x \in Int
  OBVIOUS
<1> QED BY <1>1, <1>2

\* a queues that keep their credits, k others that end with at most x each, and
\* the winner, which had at least x - M: the bounds on the first a and on all
\* a + k + 1 of them give the bound on the a + k without the winner.
LEMMA GroupArithmetic ==
  ASSUME NEW M \in Nat, NEW n \in Nat, NEW a \in Nat, NEW k \in Nat,
         NEW X \in Int, NEW x \in Int, NEW c \in Int,
         X <= M * (a * (n - a)) + x * k,
         X <= M * ((a + k + 1) * (n - (a + k + 1))) - c + M * k,
         x <= c + M
  PROVE  X <= M * ((a + k) * (n - (a + k)))
<1> DEFINE g0 == a * (n - a)
           g1 == (a + k + 1) * (n - (a + k + 1))
           g == (a + k) * (n - (a + k))
<1>1. g0 \in Int /\ g1 \in Int /\ g \in Int /\ k * g1 \in Int
  OBVIOUS
<1>2. g0 + k * g1 + k + k * k = (k + 1) * g
  OBVIOUS
<1> HIDE DEF g0, g1, g
<1>3. X <= M * g0 + x * k /\ X <= M * g1 - c + M * k
  BY DEF g0, g1
<1>4. M * g0 \in Int /\ M * g1 \in Int /\ M * g \in Int /\ M * k \in Int /\ x * k \in Int
  BY <1>1
<1>5. X <= M * g1 + M + M * k - x
  BY <1>3, <1>4
<1>6. k * X <= k * (M * g1 + M + M * k - x)
  <2>1. M * g1 + M + M * k - x \in Int
    BY <1>4
  <2> QED BY <1>5, <2>1, TimesMonotone
<1>7. k * (M * g1 + M + M * k - x) = M * (k * g1) + M * k + M * (k * k) - x * k
  BY <1>1
<1>8. M * g0 + (M * (k * g1) + M * k + M * (k * k)) = M * (g0 + k * g1 + k + k * k)
  BY <1>1
<1>9. M * (g0 + k * g1 + k + k * k) = (k + 1) * (M * g)
  <2>1. M * ((k + 1) * g) = (k + 1) * (M * g)
    BY <1>1
  <2> QED BY <1>2, <2>1
<1>10. (k + 1) * X = k * X + X /\ k * X \in Int
  OBVIOUS
<1>11. (k + 1) * X <= (k + 1) * (M * g)
  <2>1. M * (k * g1) \in Int /\ M * (k * k) \in Int
    BY <1>1
  <2> QED BY <1>3, <1>4, <1>6, <1>7, <1>8, <1>9, <1>10, <2>1
<1>12. X <= M * g
  BY <1>4, <1>11, TimesCancel
<1> QED BY <1>12 DEF g

\* A subset of the queues has a number of queues, and sums of numbers.
LEMMA SubsetFacts ==
  ASSUME TypeOK, NEW T \in SUBSET Queues
  PROVE  /\ IsFiniteSet(T) /\ Cardinality(T) \in Nat /\ Cardinality(T) <= Cardinality(Queues)
         /\ Cardinality(Queues) \in Nat
         /\ Sum(credit, T) \in Int /\ Total(T) \in Int
<1>1. IsFiniteSet(T) /\ Cardinality(T) <= Cardinality(Queues)
  BY FS_Subset, SchedAssumptions
<1>2. Cardinality(T) \in Nat /\ Cardinality(Queues) \in Nat
  BY <1>1, FS_CardinalityType, SchedAssumptions
<1>3. Sum(credit, T) \in Int
  BY SumStep, SchedAssumptions DEF TypeOK
<1> QED BY <1>1, <1>2, <1>3, TotalType

\* A part of a set weighs no more than the set.
LEMMA TotalMonotone ==
  ASSUME TypeOK, NEW S \in SUBSET Queues, NEW R \in SUBSET S
  PROVE  0 <= Total(R) /\ Total(R) <= Total(S)
<1>1. weight \in [Queues -> Int] /\ IsFiniteSet(Queues) /\ \A q \in Queues : weight[q] >= 0
  BY WeightTypes, SchedAssumptions
<1>2. \A T \in SUBSET Queues : 0 <= Total(T)
  BY <1>1, SumNonnegative DEF Total
<1>3. R \in SUBSET Queues /\ S \ R \in SUBSET (Queues \ R) /\ R \cup (S \ R) = S /\ S \ R \in SUBSET Queues
  OBVIOUS
<1>4. Total(S) = Total(R) + Total(S \ R)
  <2>1. Sum(weight, R \cup (S \ R)) = Sum(weight, R) + Sum(weight, S \ R)
    BY <1>1, <1>3, SumUnion
  <2> QED BY <1>3, <2>1 DEF Total
<1>5. Total(R) \in Int /\ Total(S \ R) \in Int /\ Total(S \ R) >= 0 /\ Total(R) >= 0
  BY <1>2, <1>3, TotalType
<1> QED BY <1>4, <1>5

\* The bound on every group of queues survives a pick.
LEMMA BoundStep ==
  ASSUME TypeOK, CreditsBounded, NEW S \in SUBSET Queues, S # {}
  PROVE  \A T \in SUBSET Queues : Sum(Credits(S, Winner(S)), T) <= Most(T)
<1> DEFINE w == Winner(S)
           new == Credits(S, w)
           M == Heaviest
           n == Cardinality(Queues)
           x == credit[w] + weight[w]
<1>1. w \in S /\ \A q \in S : credit[q] + weight[q] <= x
  BY WinnerIsRichest
<1>2. M \in Nat /\ \A q \in Queues : weight[q] <= M
  BY HeaviestBounds
<1>3. /\ new \in [Queues -> Int]
      /\ \A T \in SUBSET Queues :
           Sum(new, T) = Sum(credit, T) + Total(T \cap S) - IF w \in T THEN Total(S) ELSE 0
  BY <1>1, CreditSums
<1>4. \A q \in Queues : new[q] = IF q \notin S THEN credit[q]
                                 ELSE credit[q] + weight[q] - IF q = w THEN Total(S) ELSE 0
  BY DEF Credits
<1>5. /\ credit \in [Queues -> Int] /\ weight \in [Queues -> Int] /\ IsFiniteSet(Queues)
      /\ \A q \in Queues : credit[q] \in Int /\ weight[q] \in Nat /\ new[q] \in Int
      /\ w \in Queues /\ n \in Nat
  BY <1>1, <1>3, WeightTypes, SubsetFacts, SchedAssumptions DEF TypeOK
<1>6. x \in Int /\ x <= credit[w] + M
  BY <1>2, <1>5
<1> HIDE DEF w, new, M, n, x
<1> SUFFICES ASSUME NEW T \in SUBSET Queues PROVE Sum(new, T) <= Most(T)
  BY DEF new, w
<1>7. CASE w \in T
  <2>1. T \cap S \in SUBSET S /\ T \cap S \in SUBSET Queues
    OBVIOUS
  <2>2. Total(T \cap S) <= Total(S) /\ Total(T \cap S) \in Int /\ Total(S) \in Int /\ Sum(credit, T) \in Int
    BY <2>1, TotalMonotone, SubsetFacts
  <2>3. Sum(new, T) <= Sum(credit, T)
    BY <1>3, <1>7, <2>2
  <2>4. Sum(credit, T) <= Most(T) /\ Most(T) \in Int
    <3>1. Cardinality(T) \in Nat
      BY SubsetFacts
    <3> QED BY <1>2, <1>5, <3>1 DEF CreditsBounded, Most, M, n
  <2>5. Sum(new, T) \in Int
    BY <1>3, <1>5, SumStep
  <2> QED BY <2>2, <2>3, <2>4, <2>5
<1>8. CASE w \notin T
  <2> DEFINE A == {i \in T \ S : credit[i] > x}
             K == T \ A
             R == T \cap S
             a == Cardinality(A)
             k == Cardinality(K)
             X == Sum(new, T)
  <2>1. /\ A \in SUBSET Queues /\ K \in SUBSET Queues /\ R \in SUBSET Queues /\ T \cup {w} \in SUBSET Queues
        /\ A \cup K = T /\ A \cap K = {} /\ R \subseteq K /\ K \in SUBSET (Queues \ A)
        /\ A \cap S = {} /\ w \notin A
    BY <1>5, <1>8
  <2>2. a \in Nat /\ k \in Nat /\ Cardinality(T) = a + k
    <3>1. IsFiniteSet(A) /\ IsFiniteSet(K) /\ a \in Nat /\ k \in Nat
      BY <2>1, SubsetFacts
    <3>2. Cardinality(A \cup K) = a + k - Cardinality(A \cap K)
      BY <3>1, FS_Union
    <3>3. Cardinality(A \cap K) = 0
      BY <2>1, FS_EmptySet
    <3>4. Cardinality(A \cup K) = Cardinality(T)
      BY <2>1
    <3> HIDE DEF A, K, a, k
    <3> QED BY <3>1, <3>2, <3>3, <3>4
  <2>3. Cardinality(T \cup {w}) = a + k + 1
    BY <1>8, <2>2, SubsetFacts, FS_AddElement
  <2>4. Sum(new, A) <= M * (a * (n - a))
    <3>1. Total({}) = 0
      BY <1>5, SumStep DEF Total
    <3>2. Sum(new, A) = Sum(credit, A) + Total(A \cap S) - 0
      BY <1>3, <2>1
    <3>3. Total(A \cap S) = 0 /\ Sum(credit, A) \in Int
      BY <2>1, <3>1, SubsetFacts
    <3>5. Sum(new, A) = Sum(credit, A)
      BY <3>2, <3>3
    <3>4. Sum(credit, A) <= Most(A)
      BY <2>1 DEF CreditsBounded
    <3> QED BY <3>4, <3>5 DEF Most, M, n
  <2>5. Sum(new, K) <= x * k
    <3>1. ASSUME NEW i \in K PROVE new[i] <= x
      <4>1. i \in Queues /\ i # w /\ credit[i] \in Int /\ weight[i] \in Int
        BY <1>5, <1>8
      <4>2. CASE i \in S
        <5>1. new[i] = credit[i] + weight[i] - 0
          BY <1>4, <4>1, <4>2
        <5> QED BY <1>1, <4>1, <4>2, <5>1
      <4>3. CASE i \notin S
        <5>1. new[i] = credit[i]
          BY <1>4, <4>1, <4>3
        <5>2. ~(credit[i] > x)
          BY <4>3
        <5> QED BY <1>6, <4>1, <5>1, <5>2
      <4> QED BY <4>2, <4>3
    <3> HIDE DEF K
    <3> QED BY <1>3, <1>5, <1>6, <2>1, <3>1, SumBound
  <2>6. X = Sum(new, A) + Sum(new, K)
    BY <1>3, <1>5, <2>1, SumUnion
  <2>7. Total(R) <= M * k
    <3>1. Total(R) <= M * Cardinality(R)
      <4>1. \A q \in R : weight[q] <= M
        BY <1>2, <2>1
      <4>2. M \in Int
        BY <1>2
      <4> HIDE DEF R
      <4> QED BY <1>5, <2>1, <4>1, <4>2, SumBound DEF Total
    <3>2. Cardinality(R) <= k /\ Cardinality(R) \in Nat
      BY <2>1, SubsetFacts, FS_Subset
    <3>3. M * Cardinality(R) <= M * k
      BY <1>2, <2>2, <3>2, TimesMonotone
    <3>4. M * Cardinality(R) \in Int /\ M * k \in Int /\ Total(R) \in Int
      BY <1>2, <2>1, <2>2, <3>2, SubsetFacts
    <3> QED BY <3>1, <3>3, <3>4
  <2>8. Sum(credit, T) + credit[w] <= M * ((a + k + 1) * (n - (a + k + 1)))
    <3>1. (T \cup {w}) \ {w} = T
      BY <1>8
    <3>2. Sum(credit, T \cup {w}) = credit[w] + Sum(credit, T)
      BY <1>5, <2>1, <3>1, SumStep
    <3>3. Sum(credit, T \cup {w}) <= Most(T \cup {w})
      BY <2>1 DEF CreditsBounded
    <3>4. credit[w] \in Int /\ Sum(credit, T) \in Int
      BY <1>5, SubsetFacts
    <3> QED BY <2>3, <3>2, <3>3, <3>4 DEF Most, M, n
  <2>9. X = Sum(credit, T) + Total(R) - 0
    BY <1>3, <1>8
  <2>10. X \in Int /\ Sum(new, A) \in Int /\ Sum(new, K) \in Int /\ Sum(credit, T) \in Int /\ Total(R) \in Int
    BY <1>3, <1>5, <2>1, SumStep, SubsetFacts
  <2> HIDE DEF A, K, R, a, k, X
  <2>11. X <= M * (a * (n - a)) + x * k
    <3>1. M * (a * (n - a)) \in Int /\ x * k \in Int
      BY <1>2, <1>5, <1>6, <2>2
    <3> QED BY <2>4, <2>5, <2>6, <2>10, <3>1
  <2>12. X <= M * ((a + k + 1) * (n - (a + k + 1))) - credit[w] + M * k
    <3>1. M * ((a + k + 1) * (n - (a + k + 1))) \in Int /\ M * k \in Int /\ credit[w] \in Int
      BY <1>2, <1>5, <2>2
    <3> QED BY <2>7, <2>8, <2>9, <2>10, <3>1
  <2>13. X <= M * ((a + k) * (n - (a + k)))
    BY <1>2, <1>5, <1>6, <2>2, <2>10, <2>11, <2>12, GroupArithmetic
  <2> QED BY <2>2, <2>13 DEF Most, X, M, n
<1> QED BY <1>7, <1>8

-----------------------------------------------------------------------------
(* The invariant *)

\* With the balance, the bound on the others is a bound on the debt of one.
LEMMA DebtBounded ==
  ASSUME NEW Q, IsFiniteSet(Q), NEW f \in [Q -> Int], Sum(f, Q) = 0, NEW M \in Nat, NEW q \in Q,
         Sum(f, Q \ {q}) <= M * (Cardinality(Q \ {q}) * (Cardinality(Q) - Cardinality(Q \ {q})))
  PROVE  0 <= f[q] + M * (Cardinality(Q) - 1)
<1> DEFINE n == Cardinality(Q)
<1>1. n \in Nat /\ Cardinality(Q \ {q}) = n - 1
  BY FS_CardinalityType, FS_RemoveElement
<1>2. Sum(f, Q) = f[q] + Sum(f, Q \ {q}) /\ Sum(f, Q \ {q}) \in Int
  BY SumStep
<1> HIDE DEF n
<1>3. M * ((n - 1) * (n - (n - 1))) = M * (n - 1) /\ M * (n - 1) \in Int
  BY <1>1
<1>4. Sum(f, Q \ {q}) <= M * (n - 1)
  BY <1>1, <1>3 DEF n
<1>5. f[q] \in Int
  OBVIOUS
<1>6. 0 <= f[q] + M * (n - 1)
  BY <1>2, <1>3, <1>4, <1>5
<1> QED BY <1>6 DEF n

\* A pick in facts: the winner, the new credits, and what is left alone.
LEMMA PickFacts ==
  ASSUME SchedInv, NEW S \in SUBSET Queues, Pick(S)
  PROVE  /\ TypeOK'
         /\ Queues # {} /\ Winner(S) \in S /\ weight' = weight /\ steady' = steady
         /\ credit' = Credits(S, Winner(S)) /\ Heaviest' = Heaviest
         /\ \A T \in SUBSET Queues : Total(T)' = Total(T)
<1>0. SchedInv /\ TypeOK
  BY DEF SchedInv
<1>1. S # {} /\ Winner(S) \in S /\ weight' = weight /\ steady' = steady /\ credit' = Credits(S, Winner(S))
  BY <1>0, WinnerIsRichest DEF Pick
<1>2. credit' \in [Queues -> Int]
  BY <1>0, <1>1, CreditSums
<1>3. ran' \in [Queues -> Nat] /\ waited' \in [Queues -> Nat]
  BY <1>0 DEF Pick, TypeOK
<1>4. TypeOK'
  BY <1>0, <1>1, <1>2, <1>3 DEF TypeOK
<1> QED BY <1>1, <1>4 DEF Heaviest, Total

\* A pick keeps the balance.
LEMMA BalanceStep ==
  ASSUME SchedInv, NEW S \in SUBSET Queues, Pick(S)
  PROVE  CreditsBalance'
<1>1. TypeOK /\ Sum(credit, Queues) = 0
  BY DEF SchedInv, CreditsBalance
<1>2. Queues \cap S = S /\ Winner(S) \in S /\ Winner(S) \in Queues /\ Queues \in SUBSET Queues
  BY PickFacts
<1>3. Sum(Credits(S, Winner(S)), Queues) = Sum(credit, Queues) + Total(Queues \cap S) - Total(S)
  BY <1>1, <1>2, CreditSums
<1>4. Total(S) \in Int
  BY <1>1, TotalType
<1>5. Sum(Credits(S, Winner(S)), Queues) = 0
  BY <1>1, <1>2, <1>3, <1>4
<1> QED BY <1>5, PickFacts DEF CreditsBalance

\* A pick keeps the bound on groups.
LEMMA BoundedStep ==
  ASSUME SchedInv, NEW S \in SUBSET Queues, Pick(S)
  PROVE  CreditsBounded'
<1>1. \A T \in SUBSET Queues : Sum(Credits(S, Winner(S)), T) <= Most(T)
  BY BoundStep DEF SchedInv, Pick
<1>2. \A T : Most(T)' = Most(T)
  BY PickFacts DEF Most
<1> QED BY <1>1, <1>2, PickFacts DEF CreditsBounded

\* A pick keeps the account of the picks a queue has lost.
LEMMA WaitStep ==
  ASSUME SchedInv, NEW S \in SUBSET Queues, Pick(S)
  PROVE  WaitInv'
<1> DEFINE B == Heaviest * (Cardinality(Queues) - 1)
           w == Winner(S)
<1>0. SchedInv /\ TypeOK /\ IsFiniteSet(Queues) /\ Queues # {}
  BY PickFacts, SchedAssumptions DEF SchedInv
<1>1. Heaviest \in Nat /\ Cardinality(Queues) \in Nat
  BY <1>0, HeaviestBounds, FS_CardinalityType
<1>2. B \in Int /\ (Heaviest * (Cardinality(Queues) - 1))' = B
  BY <1>1, PickFacts
<1>3. ASSUME NEW q \in Queues PROVE 0 <= credit'[q] + B
  <2>1. credit' \in [Queues -> Int] /\ Sum(credit', Queues) = 0
    BY PickFacts, BalanceStep DEF TypeOK, CreditsBalance
  <2>2. Queues \ {q} \in SUBSET Queues /\ Heaviest' = Heaviest
    BY PickFacts
  <2>3. Sum(credit', Queues \ {q}) <=
          Heaviest * (Cardinality(Queues \ {q}) * (Cardinality(Queues) - Cardinality(Queues \ {q})))
    BY <1>0, <2>2, BoundedStep DEF CreditsBounded, Most
  <2> QED BY <1>0, <1>1, <2>1, <2>3, DebtBounded
<1>4. ASSUME NEW q \in Queues PROVE waited'[q] * weight[q] <= credit'[q] + B
  <2>0. waited[q] \in Nat /\ weight[q] \in Nat /\ credit[q] \in Int
    BY <1>0, WeightTypes DEF TypeOK
  <2>1. CASE q \in S /\ q # w
    <3>1. waited'[q] = waited[q] + 1
      BY <2>1 DEF Pick
    <3>2. credit'[q] = credit[q] + weight[q] - 0
      BY <2>1, PickFacts DEF Credits
    <3>3. waited[q] * weight[q] <= credit[q] + B
      BY <1>0 DEF SchedInv, WaitInv
    <3>4. (waited[q] + 1) * weight[q] = waited[q] * weight[q] + weight[q] /\ waited[q] * weight[q] \in Int
      BY <2>0
    <3> HIDE DEF B
    <3> QED BY <1>2, <2>0, <3>1, <3>2, <3>3, <3>4
  <2>2. CASE ~(q \in S /\ q # w)
    <3>1. waited'[q] = 0
      BY <2>2 DEF Pick
    <3>2. 0 * weight[q] = 0
      BY <2>0
    <3> QED BY <1>3, <3>1, <3>2
  <2> QED BY <2>1, <2>2
<1> HIDE DEF B
<1>5. weight' = weight
  BY PickFacts
<1> QED BY <1>2, <1>4, <1>5 DEF WaitInv

\* A round that is over gave every queue its weight: no queue is a whole round
\* in debt, so none had more, and together they had exactly as much.
LEMMA RoundIsFair ==
  ASSUME SchedInv, steady, RoundOver
  PROVE  ran = weight
<1> DEFINE W == Total(Queues)
<1>0. /\ TypeOK /\ IsFiniteSet(Queues) /\ weight \in [Queues -> Int] /\ ran \in [Queues -> Int]
      /\ \A q \in Queues : weight[q] \in Nat /\ ran[q] \in Nat
  BY WeightTypes, SchedAssumptions DEF SchedInv, TypeOK
<1>1. W \in Int /\ Sum(ran, Queues) = Sum(weight, Queues) /\ Sum(ran, Queues) = W
  BY <1>0, TotalType DEF RoundOver, Total
<1>2. ASSUME NEW q \in Queues PROVE ran[q] <= weight[q]
  <2>1. credit[q] = W * weight[q] - W * ran[q] /\ credit[q] > -W
    BY <1>1 DEF SchedInv, RoundInv, Picks
  <2>2. W >= 0
    BY <1>0, TotalMonotone
  <2> HIDE DEF W
  <2> SUFFICES ASSUME weight[q] + 1 <= ran[q] PROVE FALSE
    BY <1>0
  <2>3. W * (weight[q] + 1) <= W * ran[q]
    BY <1>0, <1>1, <2>2, TimesMonotone
  <2>4. W * (weight[q] + 1) = W * weight[q] + W /\ W * weight[q] \in Int /\ W * ran[q] \in Int
    BY <1>0, <1>1
  <2> QED BY <1>1, <2>1, <2>3, <2>4
<1>3. \A q \in Queues : ran[q] = weight[q]
  BY <1>0, <1>1, <1>2, SumLeq
<1>4. weight = [q \in Queues |-> weight[q]] /\ ran = [q \in Queues |-> ran[q]]
  BY <1>0
<1> QED BY <1>3, <1>4

\* With all queues as candidates the winner had something to pay with.
LEMMA WinnerCanPay ==
  ASSUME SchedInv, Pick(Queues)
  PROVE  credit[Winner(Queues)] + weight[Winner(Queues)] > 0
<1> DEFINE w == Winner(Queues)
           new == Credits(Queues, w)
           W == Total(Queues)
<1>0. Queues \in SUBSET Queues /\ TypeOK /\ IsFiniteSet(Queues)
  BY SchedAssumptions DEF SchedInv
<1>1. /\ w \in Queues /\ new \in [Queues -> Int] /\ Sum(new, Queues) = 0
      /\ \A q \in Queues : credit[q] + weight[q] <= credit[w] + weight[w]
  BY <1>0, PickFacts, BalanceStep, WinnerIsRichest DEF CreditsBalance, TypeOK
<1>2. W \in Int /\ W >= weight[w] /\ weight[w] \in Nat \ {0}
  <2>1. {w} \in SUBSET Queues /\ {w} \ {w} = {}
    BY <1>1
  <2>2. Total({w}) = weight[w] + Sum(weight, {}) /\ Sum(weight, {}) = 0
    BY <1>0, <2>1, WeightTypes, SumStep DEF Total
  <2>3. Total({w}) <= W /\ W \in Int
    BY <1>0, <2>1, TotalMonotone, TotalType
  <2>4. weight[w] \in Nat \ {0}
    BY <1>0, <1>1, WeightTypes
  <2> QED BY <2>2, <2>3, <2>4
<1>3. \A q \in Queues : /\ new[q] = credit[q] + weight[q] - IF q = w THEN W ELSE 0
                        /\ credit[q] \in Int /\ weight[q] \in Int
  BY <1>0, WeightTypes DEF Credits, TypeOK
<1> HIDE DEF new, w, W
<1> SUFFICES ASSUME credit[w] + weight[w] <= 0 PROVE FALSE
  BY <1>1, <1>3 DEF w
<1>4. \A q \in Queues \ {w} : new[q] <= 0
  BY <1>1, <1>3
<1>5. Sum(new, Queues \ {w}) <= 0 * Cardinality(Queues \ {w})
  BY <1>0, <1>1, <1>4, SumBound
<1>6. Cardinality(Queues \ {w}) \in Nat /\ Sum(new, Queues \ {w}) \in Int
  BY <1>0, <1>1, SumStep, SubsetFacts
<1>7. Sum(new, Queues) = new[w] + Sum(new, Queues \ {w})
  BY <1>0, <1>1, SumStep
<1>8. new[w] = credit[w] + weight[w] - W
  BY <1>1, <1>3
<1>9. Sum(new, Queues \ {w}) <= 0
  BY <1>5, <1>6
<1>10. new[w] \in Int /\ new[w] < 0
  <2>1. credit[w] \in Int /\ weight[w] \in Int
    BY <1>1, <1>3
  <2> QED BY <1>2, <1>8, <2>1
<1> QED BY <1>1, <1>6, <1>7, <1>9, <1>10

\* A steady pick keeps the accounts of the round.
LEMMA RoundStep ==
  ASSUME SchedInv, NEW S \in SUBSET Queues, Pick(S), steady => S = Queues
  PROVE  RoundInv'
<1> SUFFICES ASSUME steady PROVE /\ Picks' <= Total(Queues)'
                                 /\ \A q \in Queues : /\ credit'[q] = Picks' * weight'[q] - Total(Queues)' * ran'[q]
                                                      /\ credit'[q] > -Total(Queues)'
  BY PickFacts DEF RoundInv
<1> DEFINE w == Winner(Queues)
           W == Total(Queues)
           base == [q \in Queues |-> IF RoundOver THEN 0 ELSE ran[q]]
           t == Sum(base, Queues)
<1>0. /\ Queues \in SUBSET Queues /\ S = Queues /\ Pick(Queues) /\ TypeOK /\ IsFiniteSet(Queues)
      /\ w \in Queues /\ Total(Queues)' = W /\ weight' = weight
  BY PickFacts, SchedAssumptions DEF SchedInv
<1>1. /\ \A q \in Queues : credit[q] \in Int /\ weight[q] \in Nat \ {0} /\ ran[q] \in Nat
      /\ W \in Int /\ base \in [Queues -> Int] /\ ran' \in [Queues -> Int]
  <2>1. ran' \in [Queues -> Nat]
    BY PickFacts DEF TypeOK
  <2> QED BY <1>0, <2>1, WeightTypes, TotalType DEF TypeOK
<1>2. \A q \in Queues : ran'[q] = base[q] + IF q = w THEN 1 ELSE 0
  BY <1>0 DEF Pick
<1>3. \A q \in Queues : credit'[q] = credit[q] + weight[q] - IF q = w THEN W ELSE 0
  BY <1>0, PickFacts DEF Credits
<1>4. \A q \in Queues : base[q] = IF RoundOver THEN 0 ELSE ran[q]
  OBVIOUS
<1>5. t \in Int /\ W > 0
  <2>1. t \in Int
    BY <1>0, <1>1, SumStep
  <2>2. {w} \in SUBSET Queues /\ {w} \ {w} = {}
    BY <1>0
  <2>3. Total({w}) = weight[w] + Sum(weight, {}) /\ Sum(weight, {}) = 0
    BY <1>0, <2>2, WeightTypes, SumStep DEF Total
  <2>4. Total({w}) <= W
    BY <1>0, <2>2, TotalMonotone
  <2> QED BY <1>0, <1>1, <2>1, <2>3, <2>4
<1>6. t < W /\ \A q \in Queues : credit[q] = t * weight[q] - W * base[q]
  <2>1. CASE RoundOver
    <3>1. t = 0
      <4>1. base = [q \in Queues |-> 0]
        BY <2>1
      <4> QED BY <1>0, <4>1, SumOfZeros
    <3>2. ASSUME NEW q \in Queues PROVE credit[q] = t * weight[q] - W * base[q]
      <4>1. ran[q] = weight[q]
        BY <2>1, RoundIsFair
      <4>2. Picks = W
        BY <2>1 DEF RoundOver, Picks
      <4>3. credit[q] = W * weight[q] - W * ran[q]
        BY <4>2 DEF SchedInv, RoundInv
      <4>4. base[q] = 0 /\ weight[q] \in Nat
        BY <1>1, <2>1
      <4> HIDE DEF W, base, t
      <4>5. W * weight[q] \in Int /\ 0 * weight[q] = 0 /\ W * 0 = 0
        BY <1>1, <4>4
      <4> QED BY <3>1, <4>1, <4>3, <4>4, <4>5
    <3> QED BY <1>5, <3>1, <3>2
  <2>2. CASE ~RoundOver
    <3>1. base = ran
      BY <1>0, <2>2 DEF TypeOK
    <3>2. t = Picks /\ t # W /\ t <= W
      BY <2>2, <3>1 DEF SchedInv, RoundInv, RoundOver, Picks
    <3>3. \A q \in Queues : credit[q] = Picks * weight[q] - W * ran[q]
      BY DEF SchedInv, RoundInv
    <3> HIDE DEF t, W, base
    <3> QED BY <1>1, <1>5, <3>1, <3>2, <3>3
  <2> QED BY <2>1, <2>2
<1>7. Picks' = t + 1
  <2>1. Sum(ran', Queues) = t + 1
    <3> HIDE DEF base, w
    <3> QED BY <1>0, <1>1, <1>2, SumPlusOne
  <2> QED BY <2>1 DEF Picks
<1>8. \A q \in Queues : credit[q] > -W
  BY DEF SchedInv, RoundInv
<1>9. credit[w] + weight[w] > 0
  BY <1>0, WinnerCanPay
<1>10. \A q \in Queues : base[q] \in Int
  BY <1>1
<1> HIDE DEF w, W, base, t
<1>11. ASSUME NEW q \in Queues
       PROVE  credit'[q] = (t + 1) * weight[q] - W * ran'[q] /\ credit'[q] > -W
  <2>1. (t + 1) * weight[q] = t * weight[q] + weight[q] /\ t * weight[q] \in Int /\ W * base[q] \in Int
    BY <1>1, <1>5, <1>10
  <2>2. W * (base[q] + 1) = W * base[q] + W /\ W * (base[q] + 0) = W * base[q]
    BY <1>1, <1>10
  <2>3. CASE q = w
    BY <1>1, <1>2, <1>3, <1>5, <1>6, <1>9, <2>1, <2>2, <2>3
  <2>4. CASE q # w
    BY <1>1, <1>2, <1>3, <1>5, <1>6, <1>8, <2>1, <2>2, <2>4
  <2> QED BY <2>3, <2>4
<1> QED BY <1>0, <1>1, <1>5, <1>6, <1>7, <1>11

\* The invariant holds at the start.
LEMMA SchedInit == Init => SchedInv
<1> SUFFICES ASSUME Init PROVE SchedInv
  OBVIOUS
<1>1. TypeOK
  BY DEF Init, TypeOK
<1>2. /\ IsFiniteSet(Queues) /\ credit = [q \in Queues |-> 0] /\ ran = [q \in Queues |-> 0]
      /\ waited = [q \in Queues |-> 0]
  BY SchedAssumptions DEF Init
<1>3. \A T \in SUBSET Queues : Sum(credit, T) = 0 /\ Sum(ran, T) = 0
  BY <1>2, SumOfZeros
<1>4. CreditsBalance
  BY <1>3 DEF CreditsBalance
<1>5. ASSUME Queues # {} PROVE Heaviest \in Nat /\ Cardinality(Queues) \in Nat
  BY <1>1, <1>2, <1>5, HeaviestBounds, FS_CardinalityType
<1>6. CreditsBounded
  <2> SUFFICES ASSUME Queues # {}, NEW T \in SUBSET Queues PROVE 0 <= Most(T)
    BY <1>3 DEF CreditsBounded
  <2>1. Cardinality(T) \in Nat /\ Cardinality(Queues) - Cardinality(T) \in Nat
    BY <1>1, SubsetFacts
  <2>2. \A a, b, c \in Nat : 0 <= a * (b * c)
    OBVIOUS
  <2> QED BY <1>5, <2>1, <2>2 DEF Most
<1>7. WaitInv
  <2> SUFFICES ASSUME NEW q \in Queues PROVE 0 * weight[q] <= 0 + Heaviest * (Cardinality(Queues) - 1)
    BY <1>2 DEF WaitInv
  <2>1. Cardinality(Queues) # 0
    BY <1>2, FS_EmptySet
  <2>2. Cardinality(Queues) - 1 \in Nat /\ Heaviest \in Nat /\ weight[q] \in Nat
    BY <1>1, <1>5, <2>1, WeightTypes
  <2>3. \A a, b \in Nat : 0 <= a * b
    OBVIOUS
  <2> QED BY <2>2, <2>3
<1>8. RoundInv
  <2>1. Picks = 0 /\ Total(Queues) >= 0 /\ Total(Queues) \in Int
    BY <1>1, <1>3, TotalMonotone, TotalType DEF Picks
  <2>2. ASSUME NEW q \in Queues PROVE 0 = 0 * weight[q] - Total(Queues) * 0 /\ 0 > -Total(Queues)
    <3>1. {q} \in SUBSET Queues /\ {q} \ {q} = {} /\ weight[q] \in Nat \ {0}
      BY <1>1, WeightTypes
    <3>2. Total({q}) = weight[q] + Sum(weight, {}) /\ Sum(weight, {}) = 0
      BY <1>1, <1>2, <3>1, WeightTypes, SumStep DEF Total
    <3>3. Total({q}) <= Total(Queues)
      BY <1>1, <3>1, TotalMonotone
    <3> QED BY <2>1, <3>1, <3>2, <3>3
  <2> QED BY <1>2, <2>1, <2>2 DEF RoundInv
<1> QED BY <1>1, <1>4, <1>6, <1>7, <1>8 DEF SchedInv

\* Every step keeps it.
LEMMA SchedStep == SchedInv /\ [Next]_vars => SchedInv'
<1> SUFFICES ASSUME SchedInv, [Next]_vars PROVE SchedInv'
  OBVIOUS
<1>1. CASE Next
  <2>1. PICK S \in IF steady THEN {Queues} ELSE SUBSET Queues : Pick(S)
    BY <1>1 DEF Next
  <2>2. S \in SUBSET Queues /\ (steady => S = Queues)
    OBVIOUS
  <2> QED BY <2>1, <2>2, PickFacts, BalanceStep, BoundedStep, WaitStep, RoundStep DEF SchedInv
<1>2. CASE UNCHANGED vars
  BY <1>2 DEF vars, SchedInv, TypeOK, CreditsBalance, CreditsBounded, Most, Heaviest, WaitInv, RoundInv,
              Picks, Total
<1> QED BY <1>1, <1>2

\* Every state of every behaviour satisfies the invariant.
LEMMA SchedAlways == Spec => []SchedInv
<1> QED BY SchedInit, SchedStep, PTL DEF Spec

\* Credits only move between queues, for any queues, weights and candidates (sched.go).
THEOREM CreditsStayBalanced == Spec => []CreditsBalance
<1>1. SchedInv => CreditsBalance
  BY DEF SchedInv
<1> QED BY <1>1, SchedAlways, PTL

\* With the same candidates throughout, every round of total-weight picks gives each
\* queue exactly its weight (Pick, sched.go), however many queues there are.
THEOREM RoundsAreProportional == Spec => []Proportional
<1>1. SchedInv => Proportional
  BY RoundIsFair DEF Proportional
<1> QED BY <1>1, SchedAlways, PTL

\* No candidate of Pick is passed over for long, however the others come and go.
THEOREM NoQueueStarves == Spec => []NotStarved
<1>1. SchedInv => NotStarved
  <2> SUFFICES ASSUME SchedInv, NEW q \in Queues
               PROVE  waited[q] * weight[q] <= 2 * (Cardinality(Queues) - 1) * Heaviest
    BY DEF NotStarved
  <2> DEFINE n == Cardinality(Queues)
             M == Heaviest
  <2>1. /\ TypeOK /\ Queues # {} /\ {q} \in SUBSET Queues /\ {q} \ {q} = {} /\ IsFiniteSet(Queues)
        /\ n \in Nat /\ M \in Nat /\ credit \in [Queues -> Int]
    BY HeaviestBounds, FS_CardinalityType, SchedAssumptions DEF SchedInv, TypeOK
  <2>2. Sum(credit, {q}) = credit[q] + Sum(credit, {}) /\ Sum(credit, {}) = 0 /\ credit[q] \in Int
    BY <2>1, SumStep
  <2>3. Sum(credit, {q}) <= M * (1 * (n - 1))
    BY <2>1, FS_Singleton DEF SchedInv, CreditsBounded, Most
  <2>4. waited[q] * weight[q] <= credit[q] + M * (n - 1)
    BY DEF SchedInv, WaitInv
  <2>5. waited[q] * weight[q] \in Int
    BY <2>1, WeightTypes DEF TypeOK
  <2> HIDE DEF n, M
  <2>6. 2 * (n - 1) * M = M * (n - 1) + M * (n - 1) /\ M * (1 * (n - 1)) = M * (n - 1) /\ M * (n - 1) \in Int
    BY <2>1
  <2>7. waited[q] * weight[q] <= 2 * (n - 1) * M
    BY <2>2, <2>3, <2>4, <2>5, <2>6
  <2> QED BY <2>7 DEF n, M
<1> QED BY <1>1, SchedAlways, PTL

=============================================================================
