-------------------------- MODULE CollectionProofs --------------------------
(***************************************************************************)
(* Proofs about the collector: its budget, its lock and its on-demand       *)
(* batches, for any processes, plans, rate tables and limits; and what the   *)
(* planner and the selector take from the receipts, for any bindings.        *)
(***************************************************************************)
EXTENDS MCCollection, FiniteSetTheorems, SequenceTheorems, WellFoundedInduction, TLAPS

-----------------------------------------------------------------------------
(* Induction over finite sets, a set of sets standing for what is shown of  *)
(* them.                                                                    *)

\* A set of numbers that is not empty has a least one.
LEMMA NatLeast ==
    ASSUME NEW T \in SUBSET Nat, T # {}
    PROVE  \E n \in T : \A m \in T : n <= m
<1>1. PICK n \in T : \A m \in T : ~(<<m, n>> \in OpToRel(<, Nat))
  BY NatLessThanWellFounded, WFMin
<1>2. \A m \in T : ~(m < n)
  BY <1>1 DEF OpToRel
<1> QED BY <1>2

\* A set of numbers with 0 that is closed under successors has them all.
LEMMA NatFrom ==
    ASSUME NEW P, 0 \in P, \A n \in Nat : n \in P => n + 1 \in P
    PROVE  \A n \in Nat : n \in P
<1> DEFINE T == {n \in Nat : n \notin P}
<1> SUFFICES ASSUME T # {} PROVE FALSE
  OBVIOUS
<1>1. PICK n \in T : \A m \in T : n <= m
  <2> HIDE DEF T
  <2>1. T \in SUBSET Nat
    BY DEF T
  <2> QED BY <2>1, NatLeast
<1>2. n # 0 /\ n - 1 \in Nat
  OBVIOUS
<1>3. n - 1 \in P
  BY <1>1, <1>2
<1>4. (n - 1) + 1 \in P
  BY <1>2, <1>3
<1> QED BY <1>4

\* What is left of a finite set without one of its members is smaller.
LEMMA Without ==
    ASSUME NEW S, IsFiniteSet(S), NEW s \in SUBSET S, NEW x \in s
    PROVE  /\ s \ {x} \in SUBSET S
           /\ Cardinality(s) \in Nat /\ Cardinality(s \ {x}) \in Nat
           /\ Cardinality(s \ {x}) = Cardinality(s) - 1
<1>1. IsFiniteSet(s)
  BY FS_Subset
<1> QED BY <1>1, FS_RemoveElement, FS_CardinalityType

\* What holds of the empty set, and of a set when it holds of the set without
\* any one of its members, holds of every part of a finite set.
LEMMA PartsFrom ==
    ASSUME NEW S, IsFiniteSet(S), NEW P, {} \in P,
           \A s \in SUBSET S : s # {} /\ (\A x \in s : s \ {x} \in P) => s \in P
    PROVE  \A s \in SUBSET S : s \in P
<1> DEFINE Q == {n \in Nat : \A s \in SUBSET S : Cardinality(s) = n => s \in P}
<1>1. 0 \in Q
  <2>1. \A s \in SUBSET S : Cardinality(s) = 0 => s = {}
    BY FS_Subset, FS_EmptySet
  <2> QED BY <2>1
<1>2. ASSUME NEW n \in Nat, n \in Q PROVE n + 1 \in Q
  <2>1. ASSUME NEW s \in SUBSET S, Cardinality(s) = n + 1 PROVE s \in P
    <3>1. s # {}
      BY <2>1, FS_EmptySet
    <3>2. ASSUME NEW x \in s PROVE s \ {x} \in P
      <4>1. s \ {x} \in SUBSET S /\ Cardinality(s \ {x}) = n
        BY <2>1, Without
      <4> QED BY <4>1, <1>2
    <3> QED BY <3>1, <3>2
  <2> QED BY <2>1
<1>3. \A n \in Nat : n \in Q
  <2> HIDE DEF Q
  <2> QED BY <1>1, <1>2, NatFrom
<1>4. ASSUME NEW s \in SUBSET S PROVE s \in P
  <2>1. Cardinality(s) \in Nat
    BY FS_Subset, FS_CardinalityType
  <2> QED BY <2>1, <1>3
<1> QED BY <1>4

-----------------------------------------------------------------------------
(* Sums.                                                                   *)

\* The members of S are counted in numbers.
Counts(count, S) == \A x \in S : count[x] \in Nat

\* One step of the sum: an element of the set is counted, and the rest summed.
Step(count, f, s) ==
    IF s = {} THEN 0 ELSE LET x == CHOOSE x \in s : TRUE IN count[x] + f[s \ {x}]

\* A function that sums the parts of S.
Summing(count, S, f) == f = [s \in SUBSET S |-> Step(count, f, s)]
Sums(count, S) == CHOOSE f : Summing(count, S, f)

\* Sum is what such a function gives for the whole set.
LEMMA SumIsSums ==
    ASSUME NEW count, NEW S
    PROVE  Schedule!Sum(count, S) = Sums(count, S)[S]
BY Zenon DEF Schedule!Sum, Schedule!FoldFunctionOnSet, Schedule!MapThenFoldSet,
             Sums, Summing, Step

\* The parts of S with at most n members.
Level(S, n) == {s \in SUBSET S : Cardinality(s) <= n}

\* The parts of S are summed up to size n.
SummingTo(count, S, n, f) ==
    /\ f \in [SUBSET S -> Nat]
    /\ \A s \in Level(S, n) : f[s] = Step(count, f, s)

\* Two functions agree on a part without any one of its members.
Agree(s, f, g) == \A x \in s : f[s \ {x}] = g[s \ {x}]

\* A step reads the function at smaller sets only.
LEMMA StepLocal ==
    ASSUME NEW count, NEW f, NEW g, NEW s, Agree(s, f, g)
    PROVE  Step(count, f, s) = Step(count, g, s)
<1>1. CASE s = {}
  BY <1>1 DEF Step
<1>2. CASE s # {}
  <2> DEFINE x == CHOOSE x \in s : TRUE
  <2>1. x \in s
    BY <1>2
  <2>2. f[s \ {x}] = g[s \ {x}]
    BY <2>1 DEF Agree
  <2> QED BY <1>2, <2>2 DEF Step
<1> QED BY <1>1, <1>2

\* A step gives a number.
LEMMA StepTyped ==
    ASSUME NEW S, NEW count, Counts(count, S), NEW f \in [SUBSET S -> Nat], NEW s \in SUBSET S
    PROVE  Step(count, f, s) \in Nat
<1>1. CASE s = {}
  BY <1>1 DEF Step
<1>2. CASE s # {}
  <2> DEFINE x == CHOOSE x \in s : TRUE
  <2>1. x \in s
    BY <1>2
  <2>2. count[x] \in Nat /\ f[s \ {x}] \in Nat
    <3> HIDE DEF x
    <3> QED BY <2>1 DEF Counts
  <2> QED BY <1>2, <2>2 DEF Step
<1> QED BY <1>1, <1>2

\* A finite set is summed by some function.
LEMMA SummingExists ==
    ASSUME NEW S, IsFiniteSet(S), NEW count, Counts(count, S)
    PROVE  \E f : Summing(count, S, f) /\ f \in [SUBSET S -> Nat]
<1> DEFINE Q == {n \in Nat : \E f : SummingTo(count, S, n, f)}
<1>1. 0 \in Q
  <2> DEFINE f == [s \in SUBSET S |-> 0]
  <2>1. ASSUME NEW s \in Level(S, 0) PROVE s \in SUBSET S /\ s = {}
    <3>1. s \in SUBSET S /\ Cardinality(s) <= 0
      BY DEF Level
    <3>2. IsFiniteSet(s) /\ Cardinality(s) \in Nat
      BY <3>1, FS_Subset, FS_CardinalityType
    <3> QED BY <3>1, <3>2, FS_EmptySet
  <2>2. SummingTo(count, S, 0, f)
    BY <2>1 DEF SummingTo, Step
  <2> QED BY <2>2
<1>2. ASSUME NEW n \in Nat, n \in Q PROVE n + 1 \in Q
  <2>1. PICK f : SummingTo(count, S, n, f)
    BY <1>2
  <2>2. f \in [SUBSET S -> Nat] /\ \A s \in Level(S, n) : f[s] = Step(count, f, s)
    BY <2>1 DEF SummingTo
  <2> DEFINE g == [s \in SUBSET S |-> IF s \in Level(S, n + 1) THEN Step(count, f, s) ELSE 0]
  <2>3. \A s \in Level(S, n + 1) : s \in SUBSET S /\ Step(count, f, s) \in Nat
    BY <2>2, StepTyped DEF Level
  <2>4. g \in [SUBSET S -> Nat]
    BY <2>3
  <2>5. \A s \in Level(S, n) : s \in Level(S, n + 1) /\ s \in SUBSET S
    <3> SUFFICES ASSUME NEW s \in Level(S, n) PROVE s \in Level(S, n + 1) /\ s \in SUBSET S
      OBVIOUS
    <3>1. s \in SUBSET S /\ Cardinality(s) <= n
      BY DEF Level
    <3>2. Cardinality(s) \in Nat
      BY <3>1, FS_Subset, FS_CardinalityType
    <3> QED BY <3>1, <3>2 DEF Level
  <2>6. \A s \in Level(S, n) : f[s] = g[s]
    BY <2>2, <2>5
  <2>7. \A s \in Level(S, n + 1) : g[s] = Step(count, g, s)
    <3> SUFFICES ASSUME NEW s \in Level(S, n + 1) PROVE g[s] = Step(count, g, s)
      OBVIOUS
    <3>1. g[s] = Step(count, f, s)
      BY <2>3
    <3>2. \A x \in s : s \ {x} \in Level(S, n)
      <4> SUFFICES ASSUME NEW x \in s PROVE s \ {x} \in Level(S, n)
        OBVIOUS
      <4>1. s \in SUBSET S /\ Cardinality(s) <= n + 1
        BY DEF Level
      <4> QED BY <4>1, Without DEF Level
    <3>3. Agree(s, f, g)
      <4> HIDE DEF g
      <4> QED BY <2>6, <3>2 DEF Agree
    <3>4. Step(count, f, s) = Step(count, g, s)
      <4> HIDE DEF g
      <4> QED BY <3>3, StepLocal, Zenon
    <3> QED BY <3>1, <3>4
  <2>8. SummingTo(count, S, n + 1, g)
    <3> HIDE DEF g
    <3> QED BY <2>4, <2>7 DEF SummingTo
  <2> QED BY <2>8
<1>3. Cardinality(S) \in Q
  <2>1. Cardinality(S) \in Nat
    BY FS_CardinalityType
  <2>2. \A n \in Nat : n \in Q
    <3> HIDE DEF Q
    <3> QED BY <1>1, <1>2, NatFrom
  <2> QED BY <2>1, <2>2
<1>4. PICK f : SummingTo(count, S, Cardinality(S), f)
  BY <1>3
<1>5. f \in [SUBSET S -> Nat] /\ \A s \in Level(S, Cardinality(S)) : f[s] = Step(count, f, s)
  BY <1>4 DEF SummingTo
<1>6. \A s \in SUBSET S : s \in Level(S, Cardinality(S))
  BY FS_Subset DEF Level
<1>7. Summing(count, S, f)
  BY <1>5, <1>6 DEF Summing
<1> QED BY <1>5, <1>7

\* The sums of a finite set, part by part.
LEMMA SumsUnfold ==
    ASSUME NEW S, IsFiniteSet(S), NEW count, Counts(count, S)
    PROVE  \A s \in SUBSET S : Sums(count, S)[s] = Step(count, Sums(count, S), s)
<1>1. Summing(count, S, Sums(count, S))
  BY SummingExists DEF Sums
<1> DEFINE F == Sums(count, S)
<1>2. F = [s \in SUBSET S |-> Step(count, F, s)]
  BY <1>1 DEF Summing
<1> HIDE DEF F
<1>3. \A s \in SUBSET S : F[s] = Step(count, F, s)
  BY <1>2
<1> QED BY <1>3 DEF F

\* A sum of numbers is a number, and nothing sums to 0.
LEMMA SumsTyped ==
    ASSUME NEW S, IsFiniteSet(S), NEW count, Counts(count, S)
    PROVE  /\ \A s \in SUBSET S : Sums(count, S)[s] \in Nat
           /\ (\A x \in S : count[x] = 0) => \A s \in SUBSET S : Sums(count, S)[s] = 0
<1> DEFINE F == Sums(count, S)
<1>0. \A s \in SUBSET S : F[s] = Step(count, F, s)
  BY SumsUnfold
<1> HIDE DEF F
<1>1. F[{}] = 0
  BY <1>0 DEF Step
<1>2. ASSUME NEW s \in SUBSET S, s # {}
      PROVE  \E x \in s : x \in S /\ s \ {x} \in SUBSET S /\ F[s] = count[x] + F[s \ {x}]
  <2> DEFINE x == CHOOSE x \in s : TRUE
  <2>1. x \in s
    BY <1>2
  <2>2. F[s] = count[x] + F[s \ {x}]
    BY <1>0, <1>2 DEF Step
  <2> QED
    <3> HIDE DEF x
    <3> QED BY <2>1, <2>2
<1>3. \A s \in SUBSET S : F[s] \in Nat
  <2> DEFINE P == {s \in SUBSET S : F[s] \in Nat}
  <2>1. {} \in P
    BY <1>1
  <2>2. ASSUME NEW s \in SUBSET S, s # {}, \A x \in s : s \ {x} \in P PROVE s \in P
    <3>1. PICK x \in s : x \in S /\ s \ {x} \in SUBSET S /\ F[s] = count[x] + F[s \ {x}]
      BY <1>2, <2>2
    <3>2. F[s \ {x}] \in Nat /\ count[x] \in Nat
      BY <2>2, <3>1 DEF Counts
    <3> QED BY <3>1, <3>2
  <2>3. \A s \in SUBSET S : s \in P
    <3> HIDE DEF P
    <3> QED BY <2>1, <2>2, PartsFrom
  <2> QED BY <2>3
<1>4. ASSUME \A x \in S : count[x] = 0 PROVE \A s \in SUBSET S : F[s] = 0
  <2> DEFINE P == {s \in SUBSET S : F[s] = 0}
  <2>1. {} \in P
    BY <1>1
  <2>2. ASSUME NEW s \in SUBSET S, s # {}, \A x \in s : s \ {x} \in P PROVE s \in P
    <3>1. PICK x \in s : x \in S /\ s \ {x} \in SUBSET S /\ F[s] = count[x] + F[s \ {x}]
      BY <1>2, <2>2
    <3>2. F[s \ {x}] = 0 /\ count[x] = 0
      BY <1>4, <2>2, <3>1
    <3> QED BY <3>1, <3>2
  <2>3. \A s \in SUBSET S : s \in P
    <3> HIDE DEF P
    <3> QED BY <2>1, <2>2, PartsFrom
  <2> QED BY <2>3
<1> QED BY <1>3, <1>4 DEF F

\* One more at n is one more in the sum of a set with n, and nothing in others.
LEMMA SumsGrow ==
    ASSUME NEW S, IsFiniteSet(S), NEW n,
           NEW count, Counts(count, S), NEW more, Counts(more, S),
           \A x \in S : more[x] = IF x = n THEN count[x] + 1 ELSE count[x]
    PROVE  \A s \in SUBSET S :
              Sums(more, S)[s] = Sums(count, S)[s] + (IF n \in s THEN 1 ELSE 0)
<1> DEFINE F == Sums(count, S)
           G == Sums(more, S)
<1>0. /\ \A s \in SUBSET S : F[s] = Step(count, F, s)
      /\ \A s \in SUBSET S : G[s] = Step(more, G, s)
      /\ \A s \in SUBSET S : F[s] \in Nat
  BY SumsUnfold, SumsTyped
<1> HIDE DEF F, G
<1>1. F[{}] = 0 /\ G[{}] = 0
  BY <1>0 DEF Step
<1>2. ASSUME NEW s \in SUBSET S, s # {}
      PROVE  \E x \in s : /\ x \in S /\ s \ {x} \in SUBSET S
                          /\ F[s] = count[x] + F[s \ {x}] /\ G[s] = more[x] + G[s \ {x}]
  <2> DEFINE x == CHOOSE x \in s : TRUE
  <2>1. x \in s
    BY <1>2
  <2>2. F[s] = count[x] + F[s \ {x}] /\ G[s] = more[x] + G[s \ {x}]
    BY <1>0, <1>2 DEF Step
  <2> QED
    <3> HIDE DEF x
    <3> QED BY <2>1, <2>2
<1> DEFINE P == {s \in SUBSET S : G[s] = F[s] + (IF n \in s THEN 1 ELSE 0)}
<1>3. {} \in P
  BY <1>1
<1>4. ASSUME NEW s \in SUBSET S, s # {}, \A x \in s : s \ {x} \in P PROVE s \in P
  <2>1. PICK x \in s : /\ x \in S /\ s \ {x} \in SUBSET S
                       /\ F[s] = count[x] + F[s \ {x}] /\ G[s] = more[x] + G[s \ {x}]
    BY <1>2, <1>4
  <2>2. G[s \ {x}] = F[s \ {x}] + (IF n \in s \ {x} THEN 1 ELSE 0)
    BY <1>4, <2>1
  <2>3. F[s \ {x}] \in Nat /\ count[x] \in Nat
    BY <1>0, <2>1 DEF Counts
  <2>4. CASE x = n
    <3>1. n \notin s \ {x} /\ n \in s /\ more[x] = count[x] + 1
      BY <2>1, <2>4
    <3> QED BY <2>1, <2>2, <2>3, <3>1
  <2>5. CASE x # n
    <3>1. (n \in s \ {x} <=> n \in s) /\ more[x] = count[x]
      BY <2>1, <2>5
    <3> QED BY <2>1, <2>2, <2>3, <3>1
  <2> QED BY <2>4, <2>5
<1>5. \A s \in SUBSET S : s \in P
  <2> HIDE DEF P
  <2> QED BY <1>3, <1>4, PartsFrom
<1> QED BY <1>5 DEF F, G

-----------------------------------------------------------------------------
(* The budget.                                                             *)

\* The calls of a count fit the limits.
Within(count) ==
    /\ Schedule!Sum(count, Plans) <= AccountLimit
    /\ \A n \in Plans : /\ Schedule!Sum(count, Schedule!SameProvider(n)) <= ProviderLimit
                        /\ Schedule!Sum(count, Schedule!SameApi(n)) <= ApiLimit

Zero == [n \in Plans |-> 0]

\* There are finitely many plans, and the limits are numbers.
LEMMA PlansFinite ==
    IsFiniteSet(Plans) /\ AccountLimit \in Nat /\ ProviderLimit \in Nat /\ ApiLimit \in Nat
<1>1. Schedule!IsFiniteSet(Plans) = IsFiniteSet(Plans)
  BY Zenon DEF Schedule!IsFiniteSet, IsFiniteSet
<1> QED BY <1>1, InstanceAssumption DEF Schedule!ScheduleConstants

\* The sums of calls of some plans.
LEMMA PlanSums ==
    ASSUME NEW S \in SUBSET Plans, NEW count \in [Plans -> Nat]
    PROVE  /\ Schedule!Sum(count, S) \in Nat
           /\ Schedule!Sum(Zero, S) = 0
           /\ \A n : Schedule!Sum([count EXCEPT ![n] = @ + 1], S) =
                     Schedule!Sum(count, S) + (IF n \in S THEN 1 ELSE 0)
<1>1. IsFiniteSet(S)
  BY PlansFinite, FS_Subset
<1>2. Counts(count, S) /\ Counts(Zero, S)
  BY DEF Counts, Zero
<1>3. Schedule!Sum(count, S) \in Nat
  BY <1>1, <1>2, SumIsSums, SumsTyped
<1>4. Schedule!Sum(Zero, S) = 0
  <2>1. \A x \in S : Zero[x] = 0
    BY DEF Zero
  <2>2. Sums(Zero, S)[S] = 0
    BY <1>1, <1>2, <2>1, SumsTyped
  <2> QED BY <2>2, SumIsSums
<1>5. ASSUME NEW n
      PROVE  Schedule!Sum([count EXCEPT ![n] = @ + 1], S) =
                 Schedule!Sum(count, S) + (IF n \in S THEN 1 ELSE 0)
  <2> DEFINE more == [count EXCEPT ![n] = @ + 1]
  <2>1. Counts(more, S)
    BY DEF Counts
  <2>2. \A x \in S : more[x] = IF x = n THEN count[x] + 1 ELSE count[x]
    OBVIOUS
  <2> HIDE DEF more
  <2>3. Sums(more, S)[S] = Sums(count, S)[S] + (IF n \in S THEN 1 ELSE 0)
    BY <1>1, <1>2, <2>1, <2>2, SumsGrow
  <2> QED BY <2>3, SumIsSums DEF more
<1> QED BY <1>3, <1>4, <1>5

\* Nothing called fits, and neither does one call more that is affordable.
LEMMA BudgetGrows ==
    ASSUME NEW count \in [Plans -> Nat]
    PROVE  /\ Within(Zero)
           /\ \A n : Within(count) /\ Schedule!Affordable(count, n)
                     => Within([count EXCEPT ![n] = @ + 1])
<1>1. \A n : Schedule!SameProvider(n) \in SUBSET Plans /\ Schedule!SameApi(n) \in SUBSET Plans
  BY DEF Schedule!SameProvider, Schedule!SameApi
<1>2. Plans \in SUBSET Plans
  OBVIOUS
<1>3. Within(Zero)
  BY <1>1, <1>2, PlanSums, PlansFinite DEF Within
<1>4. ASSUME NEW n, Within(count), Schedule!Affordable(count, n)
      PROVE  Within([count EXCEPT ![n] = @ + 1])
  <2> DEFINE more == [count EXCEPT ![n] = @ + 1]
  <2>1. \A S \in SUBSET Plans :
           /\ Schedule!Sum(count, S) \in Nat
           /\ Schedule!Sum(more, S) = Schedule!Sum(count, S) + (IF n \in S THEN 1 ELSE 0)
    BY PlanSums
  <2> HIDE DEF more
  <2>2. Schedule!Sum(more, Plans) <= AccountLimit
    BY <1>2, <1>4, <2>1, PlansFinite DEF Within, Schedule!Affordable
  <2>3. ASSUME NEW m \in Plans
        PROVE  /\ Schedule!Sum(more, Schedule!SameProvider(m)) <= ProviderLimit
               /\ Schedule!Sum(more, Schedule!SameApi(m)) <= ApiLimit
    <3>1. /\ n \in Schedule!SameProvider(m) => Schedule!SameProvider(m) = Schedule!SameProvider(n)
          /\ n \in Schedule!SameApi(m) => Schedule!SameApi(m) = Schedule!SameApi(n)
      BY DEF Schedule!SameProvider, Schedule!SameApi
    <3>2. Schedule!Sum(more, Schedule!SameProvider(m)) <= ProviderLimit
      BY <1>1, <1>4, <2>1, <3>1, PlansFinite DEF Within, Schedule!Affordable
    <3>3. Schedule!Sum(more, Schedule!SameApi(m)) <= ApiLimit
      BY <1>1, <1>4, <2>1, <3>1, PlansFinite DEF Within, Schedule!Affordable
    <3> QED BY <3>2, <3>3
  <2>4. Within(more)
    BY <2>2, <2>3 DEF Within
  <2> QED BY <2>4 DEF more
<1> QED BY <1>3, <1>4

-----------------------------------------------------------------------------
(* The lock, the ledger and the on-demand batch.                           *)

Fields == {"stage", "demand", "queue", "left", "tries", "used"}

\* What each process is doing is a record of those fields.
ProcTyped ==
    /\ proc = [p \in Processes |-> proc[p]]
    /\ \A p \in Processes : proc[p] = [f \in Fields |-> proc[p][f]]

\* Who works holds the lock.
LockHeld ==
    \A p \in Processes : proc[p].stage \in {"plan", "execute", "batch"} => lock = p

\* The ledger of the process that plans or collects counts the calls it made,
\* and the calls made under the last lock fit the budget.
LedgerTrue ==
    /\ made \in [Plans -> Nat] /\ Within(made)
    /\ \A p \in Processes :
          /\ proc[p].stage \in {"selected", "locking", "plan"} => proc[p].used = Zero
          /\ proc[p].stage \in {"plan", "execute"} => proc[p].used = made

\* The batch left on demand has not run.
BatchFresh == batch \in OnDemand /\ ran[batch] = 0

\* Only the service works on demand; the selector is there while it is idle or
\* has just read it; and what it is still to run has not run.
DemandKept ==
    /\ \A p \in Processes :
          /\ proc[p].stage \in {"selected", "batch", "drop"} => proc[p].demand
          /\ proc[p].demand => p = Unit
    /\ selector => proc[Unit].stage \in {"off", "selected"} /\ BatchFresh
    /\ proc[Unit].demand /\ proc[Unit].stage \in {"selected", "locking"} => BatchFresh
    /\ ran \in [OnDemand -> Nat] /\ \A b \in OnDemand : ran[b] <= 1

WorkInv == ProcTyped /\ LockHeld /\ LedgerTrue /\ DemandKept

\* The service is a process; nobody is none and nobody's batch.
LEMMA People == Unit \in Processes /\ Nobody \notin Processes /\ Nobody \notin OnDemand
BY InstanceAssumption DEF Schedule!ScheduleConstants

\* With no process running there is nothing to bound.
LEMMA WorkStarts == Schedule!Init => WorkInv
<1> SUFFICES ASSUME Schedule!Init PROVE WorkInv
  OBVIOUS
<1> USE DEF Schedule!Init, Schedule!Off
<1>1. ProcTyped
  BY DEF ProcTyped, Fields
<1>2. LockHeld
  BY DEF LockHeld
<1>3. LedgerTrue
  <2>1. Zero \in [Plans -> Nat]
    BY DEF Zero
  <2>2. Within(Zero)
    BY <2>1, BudgetGrows
  <2> QED BY <2>1, <2>2 DEF LedgerTrue, Zero
<1>4. DemandKept
  BY People DEF DemandKept, BatchFresh
<1> QED BY <1>1, <1>2, <1>3, <1>4 DEF WorkInv

\* One process goes on to r, and the others stay.
Becomes(p, r) == proc' = [proc EXCEPT ![p] = r]

\* A process in another state of the right shape leaves the others as they are.
LEMMA BecomesTyped ==
    ASSUME ProcTyped, NEW p \in Processes, NEW r, Becomes(p, r), r = [f \in Fields |-> r[f]]
    PROVE  /\ ProcTyped' /\ proc'[p] = r
           /\ \A q \in Processes : q # p => proc'[q] = proc[q]
BY DEF ProcTyped, Becomes

\* A process starts; the service reads the selector.
LEMMA StartKeeps ==
    ASSUME WorkInv, NEW p \in Processes, Schedule!Start(p)
    PROVE  WorkInv'
<1> DEFINE r == [Schedule!Off EXCEPT !.stage = IF p = Unit /\ selector THEN "selected" ELSE "locking",
                             !.demand = (p = Unit /\ selector)]
<1>0. ProcTyped /\ LockHeld /\ LedgerTrue /\ DemandKept
  BY DEF WorkInv
<1>1. proc[p].stage = "off" /\ Becomes(p, r) /\ UNCHANGED <<lock, made, selector, batch, ran>>
  BY DEF Schedule!Start, Becomes
<1>2. proc[p] = [f \in Fields |-> proc[p][f]]
  BY <1>0 DEF ProcTyped
<1>3. /\ r = [f \in Fields |-> r[f]]
      /\ r.stage = (IF p = Unit /\ selector THEN "selected" ELSE "locking")
      /\ r.demand = (p = Unit /\ selector) /\ r.used = Zero
  BY <1>2 DEF Fields, Schedule!Off, Zero
<1> HIDE DEF r
<1>4. /\ ProcTyped' /\ proc'[p] = r
      /\ \A q \in Processes : q # p => proc'[q] = proc[q]
  BY <1>0, <1>1, <1>3, BecomesTyped
<1>5. LockHeld'
  BY <1>0, <1>1, <1>3, <1>4, People DEF LockHeld
<1>6. LedgerTrue'
  BY <1>0, <1>1, <1>3, <1>4, People DEF LedgerTrue, LockHeld
<1>7. DemandKept'
  BY <1>0, <1>1, <1>3, <1>4, People DEF DemandKept, BatchFresh
<1> QED BY <1>4, <1>5, <1>6, <1>7 DEF WorkInv

\* The service removes the selector.
LEMMA ConsumeKeeps ==
    ASSUME WorkInv, NEW p \in Processes, Schedule!Consume(p)
    PROVE  WorkInv'
<1> DEFINE r == [proc[p] EXCEPT !.stage = "locking"]
<1>0. ProcTyped /\ LockHeld /\ LedgerTrue /\ DemandKept
  BY DEF WorkInv
<1>1. proc[p].stage = "selected" /\ Becomes(p, r) /\ selector' = FALSE
      /\ UNCHANGED <<lock, made, batch, ran>>
  BY DEF Schedule!Consume, Becomes
<1>2. proc[p] = [f \in Fields |-> proc[p][f]]
  BY <1>0 DEF ProcTyped
<1>3. /\ r = [f \in Fields |-> r[f]]
      /\ r.stage = "locking" /\ r.demand = proc[p].demand /\ r.used = proc[p].used
  BY <1>2 DEF Fields
<1> HIDE DEF r
<1>4. /\ ProcTyped' /\ proc'[p] = r
      /\ \A q \in Processes : q # p => proc'[q] = proc[q]
  BY <1>0, <1>1, <1>3, BecomesTyped
<1>5. LockHeld'
  BY <1>0, <1>1, <1>3, <1>4, People DEF LockHeld
<1>6. LedgerTrue'
  BY <1>0, <1>1, <1>3, <1>4, People DEF LedgerTrue, LockHeld
<1>7. DemandKept'
  BY <1>0, <1>1, <1>3, <1>4, People DEF DemandKept, BatchFresh
<1> QED BY <1>4, <1>5, <1>6, <1>7 DEF WorkInv

\* The on-demand batch is over.
LEMMA BatchEndsKeeps ==
    ASSUME WorkInv, NEW p \in Processes, Schedule!BatchEnds(p)
    PROVE  WorkInv'
<1> DEFINE r == [proc[p] EXCEPT !.stage = "drop"]
<1>0. ProcTyped /\ LockHeld /\ LedgerTrue /\ DemandKept
  BY DEF WorkInv
<1>1. proc[p].stage = "batch" /\ Becomes(p, r) /\ lock' = Nobody
      /\ UNCHANGED <<made, selector, batch, ran>>
  BY DEF Schedule!BatchEnds, Becomes
<1>2. proc[p] = [f \in Fields |-> proc[p][f]]
  BY <1>0 DEF ProcTyped
<1>3. /\ r = [f \in Fields |-> r[f]]
      /\ r.stage = "drop" /\ r.demand = proc[p].demand
  BY <1>2 DEF Fields
<1> HIDE DEF r
<1>4. /\ ProcTyped' /\ proc'[p] = r
      /\ \A q \in Processes : q # p => proc'[q] = proc[q]
  BY <1>0, <1>1, <1>3, BecomesTyped
<1>5. LockHeld'
  BY <1>0, <1>1, <1>3, <1>4, People DEF LockHeld
<1>6. LedgerTrue'
  BY <1>0, <1>1, <1>3, <1>4, People DEF LedgerTrue, LockHeld
<1>7. DemandKept'
  BY <1>0, <1>1, <1>3, <1>4, People DEF DemandKept, BatchFresh
<1> QED BY <1>4, <1>5, <1>6, <1>7 DEF WorkInv

\* The batch file is removed.
LEMMA DropBatchKeeps ==
    ASSUME WorkInv, NEW p \in Processes, Schedule!DropBatch(p)
    PROVE  WorkInv'
<1> DEFINE r == Schedule!Off
<1>0. ProcTyped /\ LockHeld /\ LedgerTrue /\ DemandKept
  BY DEF WorkInv
<1>1. proc[p].stage = "drop" /\ Becomes(p, r) /\ batch' = Nobody
      /\ UNCHANGED <<lock, made, selector, ran>>
  BY DEF Schedule!DropBatch, Becomes
<1>2. proc[p] = [f \in Fields |-> proc[p][f]]
  BY <1>0 DEF ProcTyped
<1>3. /\ r = [f \in Fields |-> r[f]]
      /\ r.stage = "off" /\ ~r.demand
  BY <1>2 DEF Fields, Schedule!Off
<1> HIDE DEF r
<1>4. /\ ProcTyped' /\ proc'[p] = r
      /\ \A q \in Processes : q # p => proc'[q] = proc[q]
  BY <1>0, <1>1, <1>3, BecomesTyped
<1>5. LockHeld'
  BY <1>0, <1>1, <1>3, <1>4, People DEF LockHeld
<1>6. LedgerTrue'
  BY <1>0, <1>1, <1>3, <1>4, People DEF LedgerTrue, LockHeld
<1>7. DemandKept'
  BY <1>0, <1>1, <1>3, <1>4, People DEF DemandKept, BatchFresh
<1> QED BY <1>4, <1>5, <1>6, <1>7 DEF WorkInv

\* A process dies and its lock goes with it.
LEMMA CrashKeeps ==
    ASSUME WorkInv, NEW p \in Processes, Schedule!Crash(p)
    PROVE  WorkInv'
<1> DEFINE r == Schedule!Off
<1>0. ProcTyped /\ LockHeld /\ LedgerTrue /\ DemandKept
  BY DEF WorkInv
<1>1. proc[p].stage # "off" /\ Becomes(p, r) /\ lock' = (IF lock = p THEN Nobody ELSE lock)
      /\ UNCHANGED <<made, selector, batch, ran>>
  BY DEF Schedule!Crash, Becomes
<1>2. proc[p] = [f \in Fields |-> proc[p][f]]
  BY <1>0 DEF ProcTyped
<1>3. /\ r = [f \in Fields |-> r[f]]
      /\ r.stage = "off" /\ ~r.demand
  BY <1>2 DEF Fields, Schedule!Off
<1> HIDE DEF r
<1>4. /\ ProcTyped' /\ proc'[p] = r
      /\ \A q \in Processes : q # p => proc'[q] = proc[q]
  BY <1>0, <1>1, <1>3, BecomesTyped
<1>5. LockHeld'
  BY <1>0, <1>1, <1>3, <1>4, People DEF LockHeld
<1>6. LedgerTrue'
  BY <1>0, <1>1, <1>3, <1>4, People DEF LedgerTrue, LockHeld
<1>7. DemandKept'
  BY <1>0, <1>1, <1>3, <1>4, People DEF DemandKept, BatchFresh
<1> QED BY <1>4, <1>5, <1>6, <1>7 DEF WorkInv

\* The lock is taken, or a process that finds it held ends.
LEMMA LockKeeps ==
    ASSUME WorkInv, NEW p \in Processes, Schedule!Lock(p)
    PROVE  WorkInv'
<1>0. ProcTyped /\ LockHeld /\ LedgerTrue /\ DemandKept
  BY DEF WorkInv
<1>1. proc[p] = [f \in Fields |-> proc[p][f]]
  BY <1>0 DEF ProcTyped
<1>2. CASE lock = Nobody
  <2> DEFINE r == [proc[p] EXCEPT !.stage = IF proc[p].demand THEN "batch" ELSE "plan"]
  <2>1. /\ proc[p].stage = "locking" /\ Becomes(p, r) /\ lock' = p /\ made' = Zero
        /\ ran' = IF proc[p].demand THEN [ran EXCEPT ![batch] = @ + 1] ELSE ran
        /\ UNCHANGED <<selector, batch>>
    BY <1>2 DEF Schedule!Lock, Becomes, Zero
  <2>2. /\ r = [f \in Fields |-> r[f]]
        /\ r.stage = IF proc[p].demand THEN "batch" ELSE "plan"
        /\ r.demand = proc[p].demand /\ r.used = proc[p].used
    BY <1>1 DEF Fields
  <2> HIDE DEF r
  <2>3. /\ ProcTyped' /\ proc'[p] = r
        /\ \A q \in Processes : q # p => proc'[q] = proc[q]
    BY <1>0, <2>1, <2>2, BecomesTyped
  <2>4. \A q \in Processes : proc[q].stage \notin {"plan", "execute", "batch"}
    BY <1>0, <1>2, People DEF LockHeld
  <2>5. LockHeld'
    BY <2>1, <2>2, <2>3, <2>4 DEF LockHeld
  <2>6. LedgerTrue'
    <3>1. Zero \in [Plans -> Nat]
      BY DEF Zero
    <3>2. Within(Zero)
      BY <3>1, BudgetGrows
    <3>3. Within(made')
      BY <2>1, <3>2
    <3> QED BY <1>0, <2>1, <2>2, <2>3, <2>4, <3>1, <3>3 DEF LedgerTrue, Within
  <2>7. DemandKept'
    <3>1. CASE proc[p].demand
      <4>1. p = Unit /\ BatchFresh /\ ~selector
        BY <1>0, <2>1, <3>1 DEF DemandKept
      <4>2. ran' = [ran EXCEPT ![batch] = 1]
        BY <2>1, <3>1, <4>1 DEF BatchFresh
      <4>3. ran \in [OnDemand -> Nat] /\ \A b \in OnDemand : ran[b] <= 1
        BY <1>0 DEF DemandKept
      <4>4. ran' \in [OnDemand -> Nat] /\ \A b \in OnDemand : ran'[b] <= 1
        <5>1. batch \in OnDemand
          BY <4>1 DEF BatchFresh
        <5>2. \A b \in OnDemand : ran'[b] = IF b = batch THEN 1 ELSE ran[b]
          BY <4>2, <4>3
        <5>3. ran' \in [OnDemand -> Nat]
          BY <4>2, <4>3, <5>1
        <5> QED BY <4>3, <5>2, <5>3
      <4>5. \A q \in Processes :
               /\ proc'[q].stage \in {"selected", "batch", "drop"} => proc'[q].demand
               /\ proc'[q].demand => q = Unit
        BY <1>0, <2>2, <2>3, <3>1, <4>1 DEF DemandKept
      <4>6. proc'[Unit].stage = "batch" /\ ~selector'
        BY <2>1, <2>2, <2>3, <3>1, <4>1
      <4> QED BY <4>4, <4>5, <4>6 DEF DemandKept
    <3>2. CASE ~proc[p].demand
      BY <1>0, <2>1, <2>2, <2>3, <3>2, People DEF DemandKept, BatchFresh
    <3> QED BY <3>1, <3>2
  <2> QED BY <2>3, <2>5, <2>6, <2>7 DEF WorkInv
<1>3. CASE lock # Nobody
  <2> DEFINE r == IF proc[p].demand THEN [proc[p] EXCEPT !.stage = "drop"] ELSE Schedule!Off
  <2>1. /\ proc[p].stage = "locking" /\ Becomes(p, r)
        /\ UNCHANGED <<lock, made, selector, batch, ran>>
    BY <1>0, <1>3 DEF Schedule!Lock, Becomes, ProcTyped
  <2>2. /\ r = [f \in Fields |-> r[f]]
        /\ r.stage = IF proc[p].demand THEN "drop" ELSE "off"
        /\ r.demand <=> proc[p].demand
    <3>1. CASE proc[p].demand
      BY <1>1, <3>1 DEF Fields
    <3>2. CASE ~proc[p].demand
      BY <3>2, <1>0 DEF Fields, Schedule!Off, DemandKept
    <3> QED BY <3>1, <3>2
  <2> HIDE DEF r
  <2>3. /\ ProcTyped' /\ proc'[p] = r
        /\ \A q \in Processes : q # p => proc'[q] = proc[q]
    BY <1>0, <2>1, <2>2, BecomesTyped
  <2>4. LockHeld'
    BY <1>0, <2>1, <2>2, <2>3 DEF LockHeld
  <2>5. LedgerTrue'
    BY <1>0, <2>1, <2>2, <2>3 DEF LedgerTrue
  <2>6. DemandKept'
    BY <1>0, <2>1, <2>2, <2>3, People DEF DemandKept, BatchFresh
  <2> QED BY <2>3, <2>4, <2>5, <2>6 DEF WorkInv
<1> QED BY <1>2, <1>3

\* The process that plans or collects, whose ledger is used and who has made so
\* many calls, goes on to its next plan or gives the lock back.
LEMMA ContinueKeeps ==
    ASSUME WorkInv, NEW p \in Processes, proc[p].stage \in {"plan", "execute"},
           NEW queue, NEW used, Schedule!Continue(p, queue, used),
           made' = used, used \in [Plans -> Nat], Within(used),
           UNCHANGED <<selector, batch, ran>>
    PROVE  WorkInv'
<1>0. ProcTyped /\ LockHeld /\ LedgerTrue /\ DemandKept
  BY DEF WorkInv
<1>1. proc[p] = [f \in Fields |-> proc[p][f]]
  BY <1>0 DEF ProcTyped
<1>2. PICK r : /\ r = [f \in Fields |-> r[f]] /\ Becomes(p, r)
               /\ \/ r.stage = "off" /\ lock' = Nobody /\ ~r.demand
                  \/ /\ r.stage = "execute" /\ UNCHANGED lock /\ r.used = used
                     /\ r.demand = proc[p].demand
  <2>1. CASE queue = <<>>
    <3>1. Becomes(p, Schedule!Off) /\ lock' = Nobody
      BY <2>1 DEF Schedule!Continue, Becomes
    <3>2. /\ Schedule!Off = [f \in Fields |-> Schedule!Off[f]]
          /\ Schedule!Off.stage = "off" /\ ~Schedule!Off.demand
      BY DEF Schedule!Off, Fields
    <3> QED BY <3>1, <3>2
  <2>2. CASE queue # <<>>
    <3> DEFINE r == [proc[p] EXCEPT !.stage = "execute", !.queue = queue,
                        !.left = Calls[Head(queue)], !.tries = 0, !.used = used]
    <3>1. Becomes(p, r) /\ UNCHANGED lock
      BY <1>0, <2>2 DEF Schedule!Continue, Becomes, ProcTyped
    <3>2. /\ r = [f \in Fields |-> r[f]]
          /\ r.stage = "execute" /\ r.used = used /\ r.demand = proc[p].demand
      BY <1>1 DEF Fields
    <3> HIDE DEF r
    <3> QED BY <3>1, <3>2
  <2> QED BY <2>1, <2>2
<1>3. /\ ProcTyped' /\ proc'[p] = r
      /\ \A q \in Processes : q # p => proc'[q] = proc[q]
  BY <1>0, <1>2, BecomesTyped
<1>4. lock = p /\ \A q \in Processes : q # p => proc[q].stage \notin {"plan", "execute", "batch"}
  BY <1>0 DEF LockHeld
<1>5. LockHeld'
  BY <1>2, <1>3, <1>4 DEF LockHeld
<1>6. LedgerTrue'
  BY <1>0, <1>2, <1>3, <1>4 DEF LedgerTrue, Within
<1>7. DemandKept'
  BY <1>0, <1>2, <1>3, People DEF DemandKept, BatchFresh
<1> QED BY <1>3, <1>5, <1>6, <1>7 DEF WorkInv

\* The schedule is planned.
LEMMA MakePlanKeeps ==
    ASSUME WorkInv, NEW p \in Processes, Schedule!MakePlan(p)
    PROVE  WorkInv'
<1>1. /\ proc[p].stage = "plan" /\ made' = made
      /\ Schedule!Continue(p, Schedule!Admitted, proc[p].used)
      /\ UNCHANGED <<selector, batch, ran>>
  BY DEF Schedule!MakePlan
<1>2. proc[p].used = made /\ made \in [Plans -> Nat] /\ Within(made)
  BY <1>1 DEF WorkInv, LedgerTrue
<1>3. /\ proc[p].stage \in {"plan", "execute"} /\ made' = proc[p].used
      /\ proc[p].used \in [Plans -> Nat] /\ Within(proc[p].used)
  BY <1>1, <1>2
<1> QED BY <1>1, <1>3, ContinueKeeps

\* The process that collects stays at its plan.
LEMMA StaysKeeps ==
    ASSUME WorkInv, NEW p \in Processes, proc[p].stage = "execute",
           NEW r, Becomes(p, r), r = [f \in Fields |-> r[f]], r.stage = "execute",
           r.demand = proc[p].demand, r.used = made',
           made' \in [Plans -> Nat], Within(made'),
           UNCHANGED <<lock, selector, batch, ran>>
    PROVE  WorkInv'
<1>0. ProcTyped /\ LockHeld /\ LedgerTrue /\ DemandKept
  BY DEF WorkInv
<1>1. /\ ProcTyped' /\ proc'[p] = r
      /\ \A q \in Processes : q # p => proc'[q] = proc[q]
  BY <1>0, BecomesTyped
<1>2. lock = p /\ \A q \in Processes : q # p => proc[q].stage \notin {"plan", "execute", "batch"}
  BY <1>0 DEF LockHeld
<1>3. LockHeld'
  BY <1>1, <1>2 DEF LockHeld
<1>4. LedgerTrue'
  BY <1>0, <1>1, <1>2 DEF LedgerTrue, Within
<1>5. DemandKept'
  BY <1>0, <1>1, People DEF DemandKept, BatchFresh
<1> QED BY <1>1, <1>3, <1>4, <1>5 DEF WorkInv

\* The provider is called, and charged.
LEMMA CallKeeps ==
    ASSUME WorkInv, NEW p \in Processes, NEW ok \in BOOLEAN, Schedule!Call(p, ok)
    PROVE  WorkInv'
<1> DEFINE n == Head(proc[p].queue)
<1>0. ProcTyped /\ LedgerTrue
  BY DEF WorkInv
<1>1. /\ proc[p].stage = "execute" /\ Schedule!Affordable(proc[p].used, n)
      /\ made' = [made EXCEPT ![n] = @ + 1]
      /\ UNCHANGED <<selector, batch, ran>>
  BY DEF Schedule!Call
<1>2. proc[p].used = made /\ made \in [Plans -> Nat] /\ Within(made)
  BY <1>0, <1>1 DEF LedgerTrue
<1>3. /\ made' \in [Plans -> Nat] /\ Within([made EXCEPT ![n] = @ + 1])
      /\ Schedule!Charged(p) = made'
  <2>1. Schedule!Charged(p) = made' /\ made' \in [Plans -> Nat]
    <3>1. Schedule!Charged(p) = [proc[p].used EXCEPT ![n] = @ + 1]
      BY DEF Schedule!Charged
    <3> HIDE DEF n
    <3>2. [made EXCEPT ![n] = @ + 1] \in [Plans -> Nat]
      <4>1. CASE n \in Plans
        BY <1>2, <4>1
      <4>2. CASE n \notin Plans
        <5>1. [made EXCEPT ![n] = @ + 1] = made
          BY <1>2, <4>2
        <5> QED BY <1>2, <5>1
      <4> QED BY <4>1, <4>2
    <3> QED BY <1>1, <1>2, <3>1, <3>2
  <2>2. Within([made EXCEPT ![n] = @ + 1])
    BY <1>1, <1>2, BudgetGrows
  <2> QED BY <2>1, <2>2
<1> HIDE DEF n
<1>4. Within(made')
  BY <1>1, <1>3
<1>5. proc[p] = [f \in Fields |-> proc[p][f]]
  BY <1>0 DEF ProcTyped
<1>6. ASSUME NEW left, NEW tries, UNCHANGED lock,
             Becomes(p, [proc[p] EXCEPT !.used = made', !.left = left, !.tries = tries])
      PROVE  WorkInv'
  <2> DEFINE r == [proc[p] EXCEPT !.used = made', !.left = left, !.tries = tries]
  <2>1. /\ r = [f \in Fields |-> r[f]] /\ r.stage = "execute"
        /\ r.demand = proc[p].demand /\ r.used = made'
    BY <1>1, <1>5 DEF Fields
  <2>2. Becomes(p, r)
    BY <1>6
  <2> HIDE DEF r
  <2> QED BY <1>1, <1>3, <1>4, <1>6, <2>1, <2>2, StaysKeeps
<1>7. ASSUME NEW queue, Schedule!Continue(p, queue, Schedule!Charged(p)) PROVE WorkInv'
  <2>1. Schedule!Continue(p, queue, made')
    BY <1>3, <1>7
  <2> QED BY <1>1, <1>3, <1>4, <2>1, ContinueKeeps
<1>8. CASE ok /\ proc[p].left = 1
  <2>1. Schedule!Finish(p, "success", Schedule!Charged(p))
    BY <1>8 DEF Schedule!Call
  <2> QED BY <1>7, <2>1 DEF Schedule!Finish
<1>9. CASE ok /\ proc[p].left # 1
  <2>1. /\ proc' = [[proc EXCEPT ![p].used = Schedule!Charged(p)]
                       EXCEPT ![p].left = @ - 1, ![p].tries = 0]
        /\ UNCHANGED lock
    BY <1>9, Zenon DEF Schedule!Call
  <2>2. Becomes(p, [proc[p] EXCEPT !.used = made', !.left = proc[p].left - 1, !.tries = 0])
    BY <1>0, <1>3, <1>5, <2>1 DEF Becomes, ProcTyped, Fields
  <2> QED BY <1>6, <2>1, <2>2
<1>10. ASSUME UNCHANGED lock,
              proc' = [[proc EXCEPT ![p].used = Schedule!Charged(p)] EXCEPT ![p].tries = @ + 1]
       PROVE  WorkInv'
  <2>1. Becomes(p, [proc[p] EXCEPT !.used = made', !.left = proc[p].left,
                                   !.tries = proc[p].tries + 1])
    BY <1>0, <1>3, <1>5, <1>10 DEF Becomes, ProcTyped, Fields
  <2> QED BY <1>6, <1>10, <2>1
<1>11. CASE Schedule!Finish(p, "failed", Schedule!Charged(p))
  BY <1>7, <1>11 DEF Schedule!Finish
<1>12. CASE ~ok
  <2>1. \/ UNCHANGED lock
           /\ proc' = [[proc EXCEPT ![p].used = Schedule!Charged(p)]
                         EXCEPT ![p].tries = @ + 1]
        \/ Schedule!Finish(p, "failed", Schedule!Charged(p))
    BY <1>12, Zenon DEF Schedule!Call
  <2> QED BY <1>10, <1>11, <2>1
<1> QED BY <1>8, <1>9, <1>12

\* The ledger refuses a call.
LEMMA RefuseKeeps ==
    ASSUME WorkInv, NEW p \in Processes, Schedule!Refuse(p)
    PROVE  WorkInv'
<1>0. ProcTyped /\ LedgerTrue
  BY DEF WorkInv
<1>1. /\ proc[p].stage = "execute" /\ made' = made
      /\ UNCHANGED <<selector, batch, ran>>
  BY DEF Schedule!Refuse
<1>2. proc[p].used = made' /\ made' \in [Plans -> Nat] /\ Within(made')
  BY <1>0, <1>1 DEF LedgerTrue
<1>3. proc[p] = [f \in Fields |-> proc[p][f]]
  BY <1>0 DEF ProcTyped
<1>4. CASE Schedule!Finish(p, "exhausted", proc[p].used)
  <2>1. Schedule!Continue(p, Tail(proc[p].queue), proc[p].used)
    BY <1>4 DEF Schedule!Finish
  <2> QED BY <1>1, <1>2, <2>1, ContinueKeeps
<1>5. CASE proc' = [proc EXCEPT ![p].tries = @ + 1] /\ UNCHANGED lock
  <2> DEFINE r == [proc[p] EXCEPT !.tries = @ + 1]
  <2>1. /\ r = [f \in Fields |-> r[f]] /\ r.stage = "execute"
        /\ r.demand = proc[p].demand /\ r.used = made'
    BY <1>1, <1>2, <1>3 DEF Fields
  <2>2. Becomes(p, r)
    BY <1>5 DEF Becomes
  <2> HIDE DEF r
  <2> QED BY <1>1, <1>2, <1>5, <2>1, <2>2, StaysKeeps
<1> QED BY <1>4, <1>5 DEF Schedule!Refuse

\* An operator leaves a batch while the service is idle.
LEMMA LeaveBatchKeeps ==
    ASSUME WorkInv, NEW b \in OnDemand, Schedule!LeaveBatch(b)
    PROVE  WorkInv'
<1>1. /\ proc[Unit].stage = "off" /\ ran[b] = 0 /\ batch' = b /\ selector' = TRUE
      /\ UNCHANGED <<lock, proc, made, ran>>
  BY DEF Schedule!LeaveBatch
<1>2. ProcTyped' /\ LockHeld' /\ LedgerTrue'
  BY <1>1 DEF WorkInv, ProcTyped, LockHeld, LedgerTrue, Within
<1>3. DemandKept'
  BY <1>1 DEF WorkInv, DemandKept, BatchFresh
<1> QED BY <1>2, <1>3 DEF WorkInv

\* A plan is due again.
LEMMA ElapseKeeps ==
    ASSUME WorkInv, NEW n \in Plans, Schedule!Elapse(n)
    PROVE  WorkInv'
<1>1. UNCHANGED <<lock, proc, made, selector, batch, ran>>
  BY DEF Schedule!Elapse
<1> QED BY <1>1 DEF WorkInv, ProcTyped, LockHeld, LedgerTrue, DemandKept, BatchFresh, Within

\* A step of the other part changes nothing of the schedule.
LEMMA WorkIdle == WorkInv /\ UNCHANGED schedule => WorkInv'
BY DEF schedule, WorkInv, ProcTyped, LockHeld, LedgerTrue, DemandKept, BatchFresh, Within

\* Every step of a process, of the clock or of the store keeps the invariant.
LEMMA WorkStep == WorkInv /\ Schedule!Next => WorkInv'
<1> SUFFICES ASSUME WorkInv, Schedule!Next PROVE WorkInv'
  OBVIOUS
<1>1. ASSUME NEW p \in Processes, Schedule!Work(p) PROVE WorkInv'
  BY <1>1, StartKeeps, ConsumeKeeps, LockKeeps, BatchEndsKeeps, DropBatchKeeps, MakePlanKeeps,
     RefuseKeeps, CallKeeps DEF Schedule!Work
<1>2. ASSUME NEW p \in Processes, Schedule!Crash(p) PROVE WorkInv'
  BY <1>2, CrashKeeps
<1>3. ASSUME NEW b \in OnDemand, Schedule!LeaveBatch(b) PROVE WorkInv'
  BY <1>3, LeaveBatchKeeps
<1>4. ASSUME NEW n \in Plans, Schedule!Elapse(n) PROVE WorkInv'
  BY <1>4, ElapseKeeps
<1> QED BY <1>1, <1>2, <1>3, <1>4 DEF Schedule!Next

\* The invariant is stronger than what is checked.
LEMMA WorkMeans == WorkInv => WorkIsBounded
<1> SUFFICES ASSUME WorkInv PROVE WorkIsBounded
  OBVIOUS
<1>1. Schedule!OneCollector
  BY DEF WorkInv, LockHeld, Schedule!OneCollector
<1>2. Schedule!BudgetHonoured
  BY DEF WorkInv, LedgerTrue, Within, Schedule!BudgetHonoured, Schedule!Fits
<1>3. Schedule!BatchAtMostOnce
  BY DEF WorkInv, DemandKept, Schedule!BatchAtMostOnce
<1> QED BY <1>1, <1>2, <1>3 DEF WorkIsBounded, Schedule!WorkIsBounded

\* What is paid for is bounded: under one lock the calls really made, retries
\* and refusals included, keep to the account's, the provider's and the API's
\* limit; one process at a time plans, collects or runs a batch; and a batch an
\* operator left runs once, whoever dies and whatever is started again
\* (tools/run_provider_native_schedule.py).
THEOREM WorkBounded == EitherSpec => []WorkIsBounded
<1>1. EitherInit => WorkInv
  BY WorkStarts DEF EitherInit
<1>2. WorkInv /\ [EitherNext]_all => WorkInv'
  <2> SUFFICES ASSUME WorkInv, [EitherNext]_all PROVE WorkInv'
    OBVIOUS
  <2>1. CASE Schedule!Next
    BY <2>1, WorkStep
  <2>2. CASE UNCHANGED schedule
    BY <2>2, WorkIdle
  <2> QED BY <2>1, <2>2 DEF EitherNext, all
<1>3. EitherSpec => EitherInit /\ [][EitherNext]_all
  BY PTL DEF EitherSpec
<1> QED BY <1>1, <1>2, <1>3, WorkMeans, PTL

-----------------------------------------------------------------------------
(* The planner and the selector.                                           *)

\* The binding is one of the registry's and the fan-out source has a content.
Bound == setup \in Setups /\ universe \in 1..Len(Count)

\* Within the bounds the universe has a size and a run takes calls.
LEMMA BoundMeans ==
    ASSUME Bound
    PROVE  Count[universe] \in Nat /\ PerRun \in Nat \ {0}
<1>1. Count \in Seq(Nat \ {0}) /\ PerRun \in Nat \ {0}
  BY FanoutConstants DEF Bound, Count, PerRun
<1> QED BY <1>1 DEF Bound

\* A window is a finite set of numbered batches.
LEMMA WindowFinite ==
    ASSUME Bound, NEW d
    PROVE  /\ IsFiniteSet(Window(d, universe))
           /\ \A b \in Window(d, universe) : Index(b) \in Nat /\ Day(b) = d
<1> DEFINE I == 1..Count[universe]
           f == [i \in I |-> <<d, universe, i>>]
<1>1. Count[universe] \in Nat
  BY BoundMeans
<1>2. IsFiniteSet(I)
  BY <1>1, FS_Interval
<1>3. Window(d, universe) = {f[i] : i \in I}
  BY DEF Window
<1>4. f \in Surjection(I, Window(d, universe))
  BY <1>3 DEF Surjection
<1>5. IsFiniteSet(Window(d, universe))
  <2> HIDE DEF I, f
  <2> QED BY <1>2, <1>4, FS_Surjection
<1>6. ASSUME NEW b \in Window(d, universe) PROVE Index(b) \in Nat /\ Day(b) = d
  BY <1>1 DEF Window, Index, Day
<1> QED BY <1>5, <1>6

\* Of the batches of a window that a run may choose from it chooses some.
LEMMA ChoosesSome ==
    ASSUME Bound, Mode = "complete_window", NEW d,
           NEW from \in SUBSET Window(d, universe), from # {}
    PROVE  \E b \in from : Cardinality({a \in from : Before(a, b)}) < PerRun
<1> DEFINE T == {Index(b) : b \in from}
<1>1. T \in SUBSET Nat /\ T # {}
  BY WindowFinite
<1>2. PICK n \in T : \A m \in T : n <= m
  <2> HIDE DEF T
  <2> QED BY <1>1, NatLeast
<1>3. PICK b \in from : Index(b) = n
  OBVIOUS
<1>4. \A a \in from : ~Before(a, b)
  <2> SUFFICES ASSUME NEW a \in from, Before(a, b) PROVE FALSE
    OBVIOUS
  <2>1. Index(a) < Index(b)
    BY DEF Before
  <2>2. Index(b) <= Index(a) /\ Index(a) \in Nat /\ Index(b) \in Nat
    BY <1>1, <1>2, <1>3
  <2> QED BY <2>1, <2>2
<1>5. {a \in from : Before(a, b)} = {}
  BY <1>4
<1> QED BY <1>5, FS_EmptySet, BoundMeans

\* The collector chooses nothing where there is nothing to choose from.
LEMMA SelectsNothing ==
    ASSUME Bound, Mode = "complete_window"
    PROVE  Selection(today, today) = <<>> <=> Candidates(today, today) = {}
<1> DEFINE from == Candidates(today, today)
           chosen == {b \in from : Cardinality({a \in from : Before(a, b)}) < PerRun}
<1>1. from \in SUBSET Window(today, universe)
  BY DEF Candidates
<1>2. IsFiniteSet(chosen)
  <2>1. chosen \in SUBSET Window(today, universe)
    BY <1>1
  <2> HIDE DEF chosen
  <2> QED BY <2>1, WindowFinite, FS_Subset
<1>3. chosen = {} <=> from = {}
  <2> HIDE DEF from
  <2> QED BY <1>1, ChoosesSome
<1>4. DOMAIN Selection(today, today) = 1..Cardinality(chosen)
  BY DEF Selection
<1>5. Selection(today, today) = <<>> <=> Cardinality(chosen) = 0
  <2>1. Cardinality(chosen) \in Nat
    <3> HIDE DEF chosen
    <3> QED BY <1>2, FS_CardinalityType
  <2>2. CASE Cardinality(chosen) = 0
    <3> DEFINE pick(n) ==
                 CHOOSE b \in chosen : Cardinality({a \in from : Before(a, b)}) = n - 1
               sel == Selection(today, today)
    <3>0. sel = [n \in 1..Cardinality(chosen) |-> pick(n)]
      BY Zenon DEF Selection
    <3>1. sel = [n \in 1..Cardinality(chosen) |-> sel[n]]
      <4> HIDE DEF sel, chosen, pick
      <4> QED BY <3>0
    <3> HIDE DEF chosen, sel
    <3>2. 1..Cardinality(chosen) = {}
      BY <2>2
    <3>3. sel = <<>>
      BY <3>1, <3>2
    <3> QED BY <2>2, <3>3 DEF sel
  <2>3. CASE Cardinality(chosen) # 0
    <3> HIDE DEF chosen
    <3>1. 1 \in DOMAIN Selection(today, today)
      BY <1>4, <2>1, <2>3
    <3> QED BY <2>3, <3>1
  <2> QED BY <2>2, <2>3
<1>6. Cardinality(chosen) = 0 <=> chosen = {}
  <2> HIDE DEF chosen
  <2> QED BY <1>2, FS_EmptySet
<1> QED BY <1>3, <1>5, <1>6

\* A selection that is empty says what the planner says, and one that is not agrees too.
LEMMA PlannerMeans == Bound => PlannerMatchesSelector
<1> SUFFICES ASSUME Bound, Mode = "complete_window" PROVE PlannerMatchesSelector
  BY DEF PlannerMatchesSelector
<1> DEFINE W == Window(today, universe)
<1>1. Selection(today, today) = <<>> <=>
         \A b \in W : BatchState(b) \notin {"failed", "pending"}
  <2>1. Candidates(today, today) = {} <=>
           \A b \in W : BatchState(b) \notin {"failed", "pending"}
    BY DEF Candidates
  <2> QED BY <2>1, SelectsNothing
<1>2. ASSUME Retired(today) PROVE Selection(today, today) = <<>>
  <2>1. \A b \in W, v \in VariantSet : Observed(b, v)
    BY <1>2 DEF Retired
  <2>2. \A b \in W : BatchState(b) = "complete"
    BY <2>1 DEF BatchState, Observed
  <2> QED BY <1>1, <2>2
<1>3. ASSUME Selection(today, today) = <<>>, ~Retired(today)
      PROVE  \/ \E b \in W : BatchState(b) = "blocked"
             \/ \E b \in Batches : /\ Day(b) = today /\ Attempted(b)
                                   /\ b \notin W
  <2>1. CASE \E b \in Batches : Day(b) = today /\ b \notin W /\ Attempted(b)
    BY <2>1
  <2>2. CASE \E b \in W, v \in VariantSet : ~Observed(b, v)
    <3>1. PICK b \in W, v \in VariantSet : ~Observed(b, v)
      BY <2>2
    <3>2. BatchState(b) # "complete"
      BY <3>1 DEF BatchState, Observed
    <3>3. BatchState(b) \in {"failed", "blocked", "complete", "pending"}
      BY DEF BatchState
    <3> QED BY <1>1, <1>3, <3>1, <3>2, <3>3
  <2> QED BY <1>3, <2>1, <2>2 DEF Retired
<1> QED BY <1>2, <1>3 DEF PlannerMatchesSelector

\* The cadence planner and the collector, two programs that read the same
\* receipts, agree: of a window the planner retires the collector would fetch
\* nothing; and where the collector has nothing to fetch of a window that is
\* still planned, a batch is blocked or the source changed within the window
\* (provider_native_cadence.py, provider_native_ingest.py).
THEOREM PlannerAgrees == EitherSpec => []PlannerMatchesSelector
<1>1. EitherInit => Bound
  <2> SUFFICES ASSUME EitherInit PROVE Bound
    OBVIOUS
  <2>1. setup \in Setups /\ universe = 1
    BY DEF EitherInit, Init
  <2>2. Len(Count) > 0 /\ Len(Count) \in Nat
    <3>1. Len(setup.count) > 0 /\ setup.count \in Seq(Nat \ {0})
      BY <2>1, FanoutConstants
    <3> QED BY <3>1 DEF Count
  <2> QED BY <2>1, <2>2 DEF Bound
<1>2. Bound /\ [EitherNext]_all => Bound'
  <2> SUFFICES ASSUME Bound, [EitherNext]_all PROVE Bound'
    OBVIOUS
  <2>1. CASE UNCHANGED <<setup, universe>>
    BY <2>1 DEF Bound, Count
  <2>2. CASE NewUniverse
    <3>1. Len(Count) \in Nat
      <4>1. Count \in Seq(Nat \ {0})
        BY FanoutConstants DEF Bound, Count
      <4> QED BY <4>1
    <3> QED BY <2>2, <3>1 DEF Bound, Count, NewUniverse
  <2>3. CASE Next
    BY <2>1, <2>2, <2>3 DEF Next, Plan, Select, Crash, Save, Fetch, NewDay
  <2> QED BY <2>1, <2>3 DEF EitherNext, all, vars
<1>3. EitherSpec => EitherInit /\ [][EitherNext]_all
  BY PTL DEF EitherSpec
<1> QED BY <1>1, <1>2, <1>3, PlannerMeans, PTL

-----------------------------------------------------------------------------
(* Whose turn it is.                                                       *)

\* The place of the last member of a history that belongs to a batch, and a history
\* whose members are distinct.
Latest(o, b) == Max({0} \union {n \in 1..Len(o) : o[n][1] = b})
Distinct(o) == \A m, n \in 1..Len(o) : o[m] = o[n] => m = n

\* It is the place of a member that belongs to it, and none is after it.
LEMMA LastIs ==
    ASSUME NEW K, NEW o \in Seq(K), NEW b
    PROVE  /\ Latest(o, b) \in 0..Len(o)
           /\ Latest(o, b) # 0 => o[Latest(o, b)][1] = b
           /\ \A n \in 1..Len(o) : o[n][1] = b => n <= Latest(o, b)
<1> DEFINE P == {0} \union {n \in 1..Len(o) : o[n][1] = b}
           T == {Len(o) - n : n \in P}
<1>0. P \subseteq 0..Len(o) /\ Len(o) \in Nat
  OBVIOUS
<1>1. T \in SUBSET Nat /\ T # {}
  BY <1>0
<1>2. PICK t \in T : \A m \in T : t <= m
  <2> HIDE DEF T
  <2> QED BY <1>1, NatLeast
<1>3. PICK x \in P : t = Len(o) - x
  BY <1>2
<1>4. ASSUME NEW y \in P PROVE x >= y
  <2>1. Len(o) - y \in T
    OBVIOUS
  <2> HIDE DEF T, P
  <2>2. Len(o) - x <= Len(o) - y
    BY <1>2, <1>3, <2>1
  <2> QED BY <1>0, <2>2
<1>5. Latest(o, b) \in P /\ \A y \in P : Latest(o, b) >= y
  <2> HIDE DEF P
  <2>1. Latest(o, b) = CHOOSE z \in P : \A y \in P : z >= y
    BY DEF Latest, Max, P
  <2> QED BY <1>3, <1>4, <2>1
<1> QED BY <1>5

\* A place with these properties is the last one.
LEMMA LastUnique ==
    ASSUME NEW K, NEW o \in Seq(K), NEW b, NEW n \in 0..Len(o),
           n # 0 => o[n][1] = b,
           \A m \in 1..Len(o) : o[m][1] = b => m <= n
    PROVE  Latest(o, b) = n
BY LastIs

\* A history o whose member at p goes while key comes to the end, and what is so of
\* such a history t.
Moved(o, p, key) == Append(RemoveAt(o, p), key)
AfterMove(t, o, p, key) ==
    /\ Len(t) = Len(o) /\ t[Len(o)] = key
    /\ \A n \in 1..(Len(o) - 1) : t[n] = IF n < p THEN o[n] ELSE o[n + 1]

\* Taking the member at p out and appending moves it to the end.
LEMMA RemovedThenAppended ==
    ASSUME NEW K, NEW o \in Seq(K), NEW p \in 1..Len(o), NEW key \in K
    PROVE  Moved(o, p, key) \in Seq(K) /\ AfterMove(Moved(o, p, key), o, p, key)
<1> DEFINE t == Moved(o, p, key)
<1> DEFINE A == SubSeq(o, 1, p - 1)
           B == SubSeq(o, p + 1, Len(o))
           C == A \o B
<1>0. Len(o) \in Nat /\ \A i \in 1..Len(o) : o[i] \in K
  BY ElementOfSeq, LenProperties
<1>1. A \in Seq(K) /\ Len(A) = p - 1 /\ \A n \in 1..(p - 1) : A[n] = o[n]
  BY <1>0, SubSeqProperties
<1>2. B \in Seq(K) /\ Len(B) = Len(o) - p /\ \A n \in 1..(Len(o) - p) : B[n] = o[p + n]
  BY <1>0, SubSeqProperties
<1> HIDE DEF A, B
<1>3. C \in Seq(K) /\ Len(C) = Len(o) - 1
      /\ \A i \in 1..(Len(o) - 1) : C[i] = IF i <= p - 1 THEN A[i] ELSE B[i - (p - 1)]
  <2>1. /\ A \o B \in Seq(K) /\ Len(A \o B) = Len(A) + Len(B)
        /\ \A i \in 1..Len(A) + Len(B) : (A \o B)[i] = IF i <= Len(A) THEN A[i] ELSE B[i - Len(A)]
    BY <1>1, <1>2, ConcatProperties
  <2>2. Len(A) = p - 1 /\ Len(A) + Len(B) = Len(o) - 1
    BY <1>0, <1>1, <1>2
  <2> QED BY <2>1, <2>2
<1>4. \A n \in 1..(Len(o) - 1) : C[n] = IF n < p THEN o[n] ELSE o[n + 1]
  <2> SUFFICES ASSUME NEW n \in 1..(Len(o) - 1) PROVE C[n] = IF n < p THEN o[n] ELSE o[n + 1]
    OBVIOUS
  <2> HIDE DEF C
  <2>1. CASE n < p
    BY <1>0, <1>1, <1>3, <2>1
  <2>2. CASE ~(n < p)
    <3>1. C[n] = B[n - (p - 1)] /\ n - (p - 1) \in 1..(Len(o) - p)
      BY <1>0, <1>3, <2>2
    <3>2. p + (n - (p - 1)) = n + 1
      OBVIOUS
    <3> QED BY <1>2, <2>2, <3>1, <3>2
  <2> QED BY <2>1, <2>2
<1>5. t = Append(C, key)
  BY DEF Moved, RemoveAt, A, B
<1> HIDE DEF C, t
<1>6. t \in Seq(K) /\ Len(t) = Len(C) + 1 /\ t[Len(C) + 1] = key
      /\ \A n \in 1..Len(C) : t[n] = C[n]
  BY <1>3, <1>5
<1>7. t \in Seq(K) /\ AfterMove(t, o, p, key)
  BY <1>0, <1>3, <1>4, <1>6 DEF AfterMove
<1> QED BY <1>7 DEF t

\* What a history t owes to o: b is the last of it, the others keep their order.
Follows(t, o, b) ==
    /\ Distinct(t)
    /\ Latest(t, b) = Len(t)
    /\ \A x : Latest(t, x) \in 0..Len(t)
    /\ \A x, y : /\ x # b /\ y # b
                 /\ Latest(o, x) <= Latest(o, y)
                 => Latest(t, x) <= Latest(t, y)

\* A key of a batch that was not there.
LEMMA NewFollows ==
    ASSUME NEW K, NEW o \in Seq(K), Distinct(o), NEW key \in K, NEW t \in Seq(K),
           Len(t) = Len(o) + 1, t[Len(o) + 1] = key,
           \A n \in 1..Len(o) : t[n] = o[n] /\ o[n] # key
    PROVE  Follows(t, o, key[1])
<1>0. Len(o) \in Nat /\ Len(t) \in Nat
  OBVIOUS
<1>1. Distinct(t)
  <2> SUFFICES ASSUME NEW m \in 1..Len(t), NEW n \in 1..Len(t), t[m] = t[n] PROVE m = n
    BY DEF Distinct
  <2> QED BY <1>0 DEF Distinct
<1>2. Latest(t, key[1]) = Len(t)
  <2>1. Latest(t, key[1]) \in 0..Len(t) /\ Len(t) <= Latest(t, key[1])
    BY <1>0, LastIs
  <2> QED BY <1>0, <2>1
<1>3. ASSUME NEW x, x # key[1] PROVE Latest(t, x) = Latest(o, x)
  <2>1. /\ Latest(o, x) \in 0..Len(o)
        /\ Latest(o, x) # 0 => o[Latest(o, x)][1] = x
        /\ \A n \in 1..Len(o) : o[n][1] = x => n <= Latest(o, x)
    BY LastIs
  <2>2. /\ Latest(t, x) \in 0..Len(t)
        /\ Latest(t, x) # 0 => t[Latest(t, x)][1] = x
        /\ \A n \in 1..Len(t) : t[n][1] = x => n <= Latest(t, x)
    BY LastIs
  <2>3. Latest(t, x) <= Latest(o, x)
    BY <1>0, <1>3, <2>1, <2>2
  <2>4. Latest(o, x) <= Latest(t, x)
    BY <1>0, <2>1, <2>2
  <2> QED BY <2>1, <2>2, <2>3, <2>4
<1>4. \A x : Latest(t, x) \in 0..Len(t)
  BY LastIs
<1> QED BY <1>1, <1>2, <1>3, <1>4 DEF Follows

\* A key that was at p.
LEMMA OldFollows ==
    ASSUME NEW K, NEW o \in Seq(K), Distinct(o), NEW key \in K, NEW t \in Seq(K),
           \A k \in K : k[1] = key[1] => k = key,
           NEW p \in 1..Len(o), o[p] = key, AfterMove(t, o, p, key)
    PROVE  Follows(t, o, key[1])
<1>0. /\ Len(o) \in Nat /\ Len(t) = Len(o) /\ t[Len(o)] = key
      /\ \A n \in 1..(Len(o) - 1) : t[n] = IF n < p THEN o[n] ELSE o[n + 1]
  BY DEF AfterMove
<1>1. Distinct(t)
  <2> SUFFICES ASSUME NEW m \in 1..Len(t), NEW n \in 1..Len(t), t[m] = t[n] PROVE m = n
    BY DEF Distinct
  <2> DEFINE from(i) == IF i = Len(o) THEN p ELSE IF i < p THEN i ELSE i + 1
  <2>1. \A i \in 1..Len(o) : t[i] = o[from(i)] /\ from(i) \in 1..Len(o)
    BY <1>0
  <2>2. from(m) = from(n)
    <3> DEFINE i == from(m)
               j == from(n)
    <3>1. o[i] = o[j] /\ i \in 1..Len(o) /\ j \in 1..Len(o)
      <4> HIDE DEF from
      <4> QED BY <1>0, <2>1
    <3> HIDE DEF from, i, j
    <3>2. i = j
      BY <3>1 DEF Distinct
    <3> QED BY <3>2 DEF i, j
  <2> QED BY <1>0, <2>2
<1>2. Latest(t, key[1]) = Len(t)
  <2>1. Latest(t, key[1]) \in 0..Len(t) /\ Len(t) <= Latest(t, key[1])
    BY <1>0, LastIs
  <2> QED BY <1>0, <2>1
<1>3. ASSUME NEW x, x # key[1]
      PROVE  /\ Latest(o, x) \in Nat
             /\ Latest(t, x) = IF Latest(o, x) > p THEN Latest(o, x) - 1 ELSE Latest(o, x)
  <2>1. /\ Latest(o, x) \in 0..Len(o)
        /\ Latest(o, x) # 0 => o[Latest(o, x)][1] = x
        /\ \A n \in 1..Len(o) : o[n][1] = x => n <= Latest(o, x)
    BY LastIs
  <2>2. /\ Latest(t, x) \in 0..Len(t)
        /\ Latest(t, x) # 0 => t[Latest(t, x)][1] = x
        /\ \A n \in 1..Len(t) : t[n][1] = x => n <= Latest(t, x)
    BY LastIs
  <2>3. (Latest(o, x) # p /\ Latest(t, x) # Len(t)) \/ Latest(t, x) = 0
    BY <1>0, <1>3, <2>1, <2>2
  <2>4. Latest(o, x) # p
    BY <1>3, <2>1
  <2>5. CASE Latest(t, x) = 0
    <3>1. CASE Latest(o, x) = 0
      BY <2>5, <3>1
    <3>2. CASE Latest(o, x) # 0
      <4> DEFINE n == IF Latest(o, x) > p THEN Latest(o, x) - 1 ELSE Latest(o, x)
      <4>1. n \in 1..(Len(o) - 1) /\ t[n] = o[Latest(o, x)]
        BY <1>0, <2>1, <2>4, <3>2
      <4>2. n <= Latest(t, x)
        <5> HIDE DEF n
        <5> QED BY <1>0, <2>1, <2>2, <3>2, <4>1
      <4> QED BY <2>5, <4>1, <4>2
    <3> QED BY <3>1, <3>2
  <2>6. CASE Latest(t, x) # 0
    <3> DEFINE q == Latest(t, x)
               m == IF q < p THEN q ELSE q + 1
    <3>1. q \in 1..(Len(o) - 1)
      BY <1>0, <1>3, <2>2, <2>6
    <3>2. m \in 1..Len(o) /\ o[m][1] = x
      BY <1>0, <2>2, <2>6, <3>1
    <3>3. m <= Latest(o, x)
      <4> HIDE DEF m
      <4> QED BY <2>1, <3>2
    <3> DEFINE n == IF Latest(o, x) > p THEN Latest(o, x) - 1 ELSE Latest(o, x)
    <3>4. Latest(o, x) # 0
      BY <2>1, <3>1, <3>3
    <3>5. n \in 1..(Len(o) - 1) /\ t[n] = o[Latest(o, x)]
      BY <1>0, <2>1, <2>4, <3>4
    <3>6. n <= q
      <4> HIDE DEF n
      <4> QED BY <1>0, <2>1, <2>2, <3>4, <3>5
    <3> QED BY <1>0, <2>1, <2>4, <3>1, <3>3, <3>6
  <2> QED BY <2>5, <2>6
<1>4. \A x : Latest(t, x) \in 0..Len(t)
  BY LastIs
<1>5. ASSUME NEW x, NEW y, x # key[1], y # key[1], Latest(o, x) <= Latest(o, y)
      PROVE  Latest(t, x) <= Latest(t, y)
  BY <1>3, <1>5
<1> QED BY <1>1, <1>2, <1>4, <1>5 DEF Follows

\* A key that is touched comes to the end of any history.
LEMMA MovesToEnd ==
    ASSUME NEW K, NEW key \in K, NEW o \in Seq(K), Distinct(o),
           \A k \in K : k[1] = key[1] => k = key
    PROVE  LET old == {n \in 1..Len(o) : o[n] = key}
               t == Append(IF old = {} THEN o ELSE RemoveAt(o, CHOOSE n \in old : TRUE), key)
           IN  t \in Seq(K) /\ Follows(t, o, key[1])
<1> DEFINE old == {n \in 1..Len(o) : o[n] = key}
           p == CHOOSE n \in old : TRUE
           t == Append(IF old = {} THEN o ELSE RemoveAt(o, p), key)
<1>1. CASE old = {}
  <2>1. t = Append(o, key)
    BY <1>1
  <2> HIDE DEF t
  <2>2. /\ t \in Seq(K) /\ Len(t) = Len(o) + 1 /\ t[Len(o) + 1] = key
        /\ \A n \in 1..Len(o) : t[n] = o[n] /\ o[n] # key
    BY <1>1, <2>1
  <2>3. t \in Seq(K) /\ Follows(t, o, key[1])
    BY <2>2, NewFollows
  <2> QED BY <2>3 DEF t
<1>2. CASE old # {}
  <2>1. p \in old
    BY <1>2
  <2>2. p \in 1..Len(o) /\ o[p] = key
    BY <2>1
  <2>3. t = Moved(o, p, key)
    BY <1>2 DEF Moved
  <2> HIDE DEF t, p, old
  <2>4. t \in Seq(K) /\ AfterMove(t, o, p, key)
    BY <2>2, <2>3, RemovedThenAppended
  <2>5. t \in Seq(K) /\ Follows(t, o, key[1])
    BY <2>2, <2>4, OldFollows
  <2> QED BY <2>5 DEF t, p, old
<1> QED BY <1>1, <1>2

\* A key that is touched becomes the last one; other batches keep their order.
LEMMA TouchMoves ==
    ASSUME NEW K, NEW key \in K, order \in Seq(K), Distinct(order),
           \A k \in K : k[1] = key[1] => k = key
    PROVE  Touched(key) \in Seq(K) /\ Follows(Touched(key), order, key[1])
BY MovesToEnd DEF Touched

-----------------------------------------------------------------------------
(* The first members of an ordered set.                                    *)

\* R orders the members of S: no two are even, and none is before itself.
Orders(R, S) ==
    /\ \A a \in S : <<a, a>> \notin R
    /\ \A a, b \in S : a # b => <<a, b>> \in R \/ <<b, a>> \in R
    /\ \A a, b, c \in S : <<a, b>> \in R /\ <<b, c>> \in R => <<a, c>> \in R

\* The members before b, and those with fewer than k before them.
Below(R, S, b) == {a \in S : <<a, b>> \in R}
First(R, S, k) == {b \in S : Cardinality(Below(R, S, b)) < k}

\* A later member has more members before it.
LEMMA BelowGrows ==
    ASSUME NEW S, IsFiniteSet(S), NEW R, Orders(R, S),
           NEW a \in S, NEW b \in S, <<a, b>> \in R
    PROVE  /\ Cardinality(Below(R, S, a)) \in Nat /\ Cardinality(Below(R, S, b)) \in Nat
           /\ Cardinality(Below(R, S, a)) < Cardinality(Below(R, S, b))
<1>1. Below(R, S, a) \in SUBSET Below(R, S, b)
  BY DEF Below, Orders
<1>2. Below(R, S, a) # Below(R, S, b)
  <2>1. a \in Below(R, S, b) /\ a \notin Below(R, S, a)
    BY DEF Below, Orders
  <2> QED BY <2>1
<1>3. IsFiniteSet(Below(R, S, b))
  <2>1. Below(R, S, b) \in SUBSET S
    BY DEF Below
  <2> QED BY <2>1, FS_Subset
<1>4. IsFiniteSet(Below(R, S, a)) /\ Cardinality(Below(R, S, a)) <= Cardinality(Below(R, S, b))
      /\ Cardinality(Below(R, S, a)) # Cardinality(Below(R, S, b))
  BY <1>1, <1>2, <1>3, FS_Subset
<1> QED BY <1>3, <1>4, FS_CardinalityType

\* The first k members take the places from 0 on, each one of its own.
LEMMA FirstPlaces ==
    ASSUME NEW S, IsFiniteSet(S), NEW R, Orders(R, S), NEW k \in Nat
    PROVE  /\ Cardinality(First(R, S, k)) \in Nat
           /\ \A n \in 1..Cardinality(First(R, S, k)) :
                 \E b \in First(R, S, k) : Cardinality(Below(R, S, b)) = n - 1
           /\ \A a, b \in S : Cardinality(Below(R, S, a)) = Cardinality(Below(R, S, b)) => a = b
<1> DEFINE chosen == First(R, S, k)
           place(b) == Cardinality(Below(R, S, b))
           N == Cardinality(chosen)
           f == [b \in chosen |-> place(b) + 1]
<1>1. \A a, b \in S : place(a) = place(b) => a = b
  <2> SUFFICES ASSUME NEW a \in S, NEW b \in S, place(a) = place(b), a # b PROVE FALSE
    OBVIOUS
  <2>1. <<a, b>> \in R \/ <<b, a>> \in R
    BY DEF Orders
  <2>2. CASE <<a, b>> \in R
    BY <2>2, BelowGrows
  <2>3. CASE <<b, a>> \in R
    BY <2>3, BelowGrows
  <2> QED BY <2>1, <2>2, <2>3
<1>2. chosen \in SUBSET S /\ IsFiniteSet(chosen)
  <2>1. chosen \in SUBSET S
    BY DEF First
  <2> HIDE DEF chosen
  <2> QED BY <2>1, FS_Subset
<1>3. N \in Nat
  <2> HIDE DEF chosen
  <2> QED BY <1>2, FS_CardinalityType
<1>4. ASSUME NEW b \in chosen PROVE place(b) \in Nat /\ place(b) + 1 \in 1..N
  <2>1. b \in S /\ place(b) < k
    BY DEF First
  <2>2. Below(R, S, b) \in SUBSET S
    BY DEF Below
  <2>3. place(b) \in Nat
    BY <2>2, FS_Subset, FS_CardinalityType
  <2>4. ASSUME NEW a \in Below(R, S, b) PROVE a \in chosen \ {b}
    <3>1. a \in S /\ <<a, b>> \in R
      BY <2>4 DEF Below
    <3>2. place(a) \in Nat /\ place(a) < place(b)
      BY <2>1, <3>1, BelowGrows
    <3>3. place(a) < k
      <4> HIDE DEF place
      <4> QED BY <2>1, <2>3, <3>2
    <3>4. a # b
      BY <2>1, <3>1 DEF Orders
    <3> QED BY <3>1, <3>3, <3>4 DEF First
  <2>5. Below(R, S, b) \in SUBSET (chosen \ {b})
    BY <2>4
  <2>6. IsFiniteSet(chosen \ {b}) /\ Cardinality(chosen \ {b}) = N - 1
    <3> HIDE DEF chosen
    <3> QED BY <1>2, FS_RemoveElement
  <2>7. place(b) <= N - 1
    <3> HIDE DEF chosen
    <3>1. place(b) <= Cardinality(chosen \ {b})
      BY <2>5, <2>6, FS_Subset
    <3> QED BY <2>6, <3>1
  <2> HIDE DEF chosen, place
  <2> QED BY <1>3, <2>3, <2>7
<1>5. f \in Injection(chosen, 1..N)
  <2>1. \A a, b \in chosen : f[a] = f[b] => a = b
    <3> SUFFICES ASSUME NEW a \in chosen, NEW b \in chosen, f[a] = f[b] PROVE a = b
      OBVIOUS
    <3>1. place(a) \in Nat /\ place(b) \in Nat
      BY <1>4
    <3>2. place(a) = place(b) /\ a \in S /\ b \in S
      <4> HIDE DEF place, chosen
      <4> QED BY <1>2, <3>1
    <3> QED BY <1>1, <3>2
  <2>2. f \in [chosen -> 1..N]
    <3> HIDE DEF place, chosen, N
    <3> QED BY <1>4
  <2> HIDE DEF f, chosen, N
  <2>3. IsInjective(f)
    BY <2>1, <2>2 DEF IsInjective
  <2> QED BY <2>2, <2>3 DEF Injection
<1>6. f \in Surjection(chosen, 1..N)
  <2> HIDE DEF chosen, f
  <2>1. IsFiniteSet(1..N) /\ Cardinality(1..N) = N
    BY <1>3, FS_Interval
  <2> QED BY <1>5, <2>1, FS_Injection
<1>7. ASSUME NEW n \in 1..N PROVE \E b \in chosen : place(b) = n - 1
  <2>1. PICK b \in chosen : f[b] = n
    <3> HIDE DEF chosen, f, N
    <3> QED BY <1>6 DEF Surjection
  <2>2. place(b) \in Nat /\ n = place(b) + 1
    BY <1>4, <2>1
  <2> HIDE DEF chosen, place
  <2> QED BY <2>2
<1> QED BY <1>1, <1>3, <1>7

\* l lists the first k members by their places.
Listed(R, S, k, l) ==
    l = [n \in 1..Cardinality(First(R, S, k)) |->
            CHOOSE b \in First(R, S, k) : Cardinality(Below(R, S, b)) = n - 1]

\* Then they come in order, none before one that is left out.
LEMMA ListInOrder ==
    ASSUME NEW S, IsFiniteSet(S), NEW R, Orders(R, S), NEW k \in Nat, NEW l, Listed(R, S, k, l)
    PROVE  /\ l \in Seq(S)
           /\ \A m, n \in 1..Len(l) : l[m] = l[n] => m = n
           /\ \A n \in 1..Len(l) : \A a \in S :
                 <<a, l[n]>> \in R => \E m \in 1..(n - 1) : l[m] = a
<1> DEFINE chosen == First(R, S, k)
           place(b) == Cardinality(Below(R, S, b))
           N == Cardinality(chosen)
<1>1. N \in Nat /\ chosen \in SUBSET S
  BY FirstPlaces DEF First
<1>2. ASSUME NEW n \in 1..N PROVE l[n] \in chosen /\ place(l[n]) = n - 1
  <2>1. \E b \in chosen : place(b) = n - 1
    BY FirstPlaces
  <2>2. l[n] = CHOOSE b \in chosen : place(b) = n - 1
    BY DEF Listed
  <2> HIDE DEF chosen, place
  <2> QED BY <2>1, <2>2
<1>3. l \in Seq(S) /\ Len(l) = N
  <2>1. l = [n \in 1..N |-> l[n]]
    <3> DEFINE pick(n) == CHOOSE b \in chosen : place(b) = n - 1
    <3>1. l = [n \in 1..N |-> pick(n)]
      BY DEF Listed
    <3> HIDE DEF chosen, place, pick
    <3> QED BY <3>1
  <2> HIDE DEF chosen, place, N
  <2> QED BY <1>1, <1>2, <2>1
<1>4. ASSUME NEW m \in 1..N, NEW n \in 1..N, l[m] = l[n] PROVE m = n
  <2>1. place(l[m]) = m - 1 /\ place(l[n]) = n - 1
    BY <1>2
  <2> HIDE DEF place
  <2> QED BY <1>1, <1>4, <2>1
<1>5. ASSUME NEW n \in 1..N, NEW a \in S, <<a, l[n]>> \in R
      PROVE  \E m \in 1..(n - 1) : l[m] = a
  <2>1. l[n] \in S /\ place(l[n]) = n - 1 /\ place(l[n]) < k
    BY <1>1, <1>2 DEF First
  <2>2. place(a) \in Nat /\ place(a) < n - 1
    BY <1>5, <2>1, BelowGrows
  <2>3. a \in chosen
    <3>1. place(a) < k
      <4> HIDE DEF place, chosen
      <4> QED BY <1>1, <2>1, <2>2
    <3> QED BY <3>1 DEF First
  <2>4. place(a) + 1 \in 1..(n - 1) /\ place(a) + 1 \in 1..N
    <3> HIDE DEF place, chosen, N
    <3> QED BY <1>1, <2>2
  <2>5. place(l[place(a) + 1]) = place(a)
    <3>1. place(l[place(a) + 1]) = (place(a) + 1) - 1
      <4> DEFINE m == place(a) + 1
      <4>1. m \in 1..N
        BY <2>4
      <4> HIDE DEF m
      <4>2. place(l[m]) = m - 1
        BY <4>1, <1>2
      <4> QED BY <4>2 DEF m
    <3> HIDE DEF place
    <3> QED BY <2>2, <3>1
  <2>6. l[place(a) + 1] \in S
    <3> HIDE DEF place, chosen
    <3> QED BY <1>1, <1>2, <2>4
  <2>7. l[place(a) + 1] = a
    BY <2>5, <2>6, FirstPlaces
  <2> QED BY <2>4, <2>7
<1> QED BY <1>3, <1>4, <1>5

-----------------------------------------------------------------------------
(* Who waited longest.                                                     *)

\* The batches of l, of a window W, come in turn: of the candidates C only those
\* that come earlier in l have waited longer, by the history o.
Turns(l, W, C, o) ==
    /\ l \in Seq(W)
    /\ \A m, n \in 1..Len(l) : l[m] = l[n] => m = n
    /\ \A n \in 1..Len(l) : \A a \in C :
          Latest(o, l[n]) <= Latest(o, a) \/ \E m \in 1..(n - 1) : l[m] = a

\* Fewer candidates, and a part from the front, are no less in turn.
LEMMA TurnsLess ==
    ASSUME NEW l, NEW W, NEW C, NEW o, Turns(l, W, C, o),
           NEW D \in SUBSET C, NEW q \in Seq(W), Len(q) <= Len(l),
           \A n \in 1..Len(q) : q[n] = l[n]
    PROVE  Turns(q, W, D, o)
<1>1. Len(q) \in Nat /\ Len(l) \in Nat
  BY DEF Turns
<1>2. \A n \in 1..Len(q) : n \in 1..Len(l) /\ \A m \in 1..(n - 1) : m \in 1..Len(q)
  BY <1>1
<1> QED BY <1>1, <1>2 DEF Turns

\* When the first is served, the rest is in turn.
LEMMA TurnsTail ==
    ASSUME NEW l, NEW W, NEW C, NEW o, Turns(l, W, C, o), l # <<>>,
           NEW t, Follows(t, o, Head(l)), NEW D, D \subseteq C \union {Head(l)}
    PROVE  Turns(Tail(l), W, D, t)
<1> DEFINE q == Tail(l)
           b == Head(l)
<1>0. l \in Seq(W) /\ Len(l) \in Nat /\ Len(l) > 0
  BY DEF Turns
<1>1. q \in Seq(W) /\ Len(q) = Len(l) - 1 /\ \A n \in 1..Len(q) : q[n] = l[n + 1]
  BY <1>0, HeadTailProperties
<1>2. b = l[1]
  BY <1>0
<1> HIDE DEF q, b
<1>3. ASSUME NEW m \in 1..Len(q), NEW n \in 1..Len(q), q[m] = q[n] PROVE m = n
  <2>1. l[m + 1] = l[n + 1] /\ m + 1 \in 1..Len(l) /\ n + 1 \in 1..Len(l)
    BY <1>0, <1>1, <1>3
  <2>2. m + 1 = n + 1
    BY <2>1 DEF Turns
  <2> QED BY <2>2
<1>4. ASSUME NEW n \in 1..Len(q), NEW a \in D
      PROVE  Latest(t, q[n]) <= Latest(t, a) \/ \E m \in 1..(n - 1) : q[m] = a
  <2>1. q[n] = l[n + 1] /\ n + 1 \in 1..Len(l) /\ 1 \in 1..Len(l) /\ n \in Nat /\ n # 0
    BY <1>0, <1>1
  <2>2. q[n] # b
    <3>1. l[n + 1] = l[1] => n + 1 = 1
      BY <2>1 DEF Turns
    <3> QED BY <1>2, <2>1, <3>1
  <2>3. CASE a = b
    <3>1. Latest(t, q[n]) \in 0..Len(t) /\ Latest(t, a) = Len(t)
      BY <2>3 DEF Follows, b
    <3> QED BY <3>1
  <2>4. CASE a # b
    <3>1. a \in C
      BY <2>4 DEF b
    <3>2. Latest(o, l[n + 1]) <= Latest(o, a) \/ \E m \in 1..((n + 1) - 1) : l[m] = a
      BY <2>1, <3>1 DEF Turns
    <3>3. CASE Latest(o, l[n + 1]) <= Latest(o, a)
      BY <2>1, <2>2, <2>4, <3>3 DEF Follows, b
    <3>4. CASE \E m \in 1..((n + 1) - 1) : l[m] = a
      <4>1. PICK m \in 1..n : l[m] = a
        BY <2>1, <3>4
      <4>2. m # 1
        BY <1>2, <2>4, <4>1
      <4>3. m - 1 \in 1..(n - 1) /\ m - 1 \in 1..Len(q) /\ (m - 1) + 1 = m
        BY <1>1, <2>1, <4>2
      <4>4. q[m - 1] = a
        BY <1>1, <4>1, <4>3
      <4> QED BY <4>3, <4>4
    <3> QED BY <3>2, <3>3, <3>4
  <2> QED BY <2>3, <2>4
<1> QED BY <1>1, <1>3, <1>4 DEF Turns, q

\* A run chooses batches in turn.
LEMMA SelectsInTurn ==
    ASSUME Bound, Mode # "complete_window", order \in Seq(Keys), NEW d
    PROVE  Turns(Selection(d, today), Window(d, universe), Candidates(d, today), order)
<1> DEFINE W == Window(d, universe)
           from == Candidates(d, today)
           R == {x \in from \X from : Before(x[1], x[2])}
           l == Selection(d, today)
<1>1. from \in SUBSET W /\ IsFiniteSet(from)
  <2>1. from \in SUBSET W
    BY DEF Candidates
  <2> HIDE DEF W, from
  <2> QED BY <2>1, WindowFinite, FS_Subset DEF W
<1>2. PerRun \in Nat
  BY BoundMeans
<1>3. \A b \in from : /\ Index(b) \in Nat /\ LastAttempt(b) \in Nat
                      /\ LastAttempt(b) = Latest(order, b)
  <2> SUFFICES ASSUME NEW b \in from
               PROVE  /\ Index(b) \in Nat /\ LastAttempt(b) \in Nat
                      /\ LastAttempt(b) = Latest(order, b)
    OBVIOUS
  <2>1. Index(b) \in Nat
    BY <1>1, WindowFinite
  <2>2. LastAttempt(b) = Latest(order, b)
    BY Zenon DEF LastAttempt, Latest
  <2>3. Latest(order, b) \in 0..Len(order) /\ Len(order) \in Nat
    BY LastIs
  <2> QED BY <2>1, <2>2, <2>3
<1>4. \A a, b \in from : Index(a) = Index(b) => a = b
  BY <1>1 DEF Window, Index
<1> HIDE DEF from
<1>5. \A a, b \in from : <<a, b>> \in R <=>
         \/ LastAttempt(a) < LastAttempt(b)
         \/ LastAttempt(a) = LastAttempt(b) /\ Index(a) < Index(b)
  BY DEF Before
<1>6. Orders(R, from)
  <2> HIDE DEF R
  <2> QED BY <1>3, <1>4, <1>5 DEF Orders
<1>7. \A b \in from : Below(R, from, b) = {a \in from : Before(a, b)}
  BY DEF Below
<1> DEFINE F == {b \in from : Cardinality({a \in from : Before(a, b)}) < PerRun}
           pick(n) == CHOOSE b \in F : Cardinality({a \in from : Before(a, b)}) = n - 1
           listed(n) == CHOOSE b \in F : Cardinality(Below(R, from, b)) = n - 1
<1>8. Listed(R, from, PerRun, l)
  <2>1. First(R, from, PerRun) = F
    <3> HIDE DEF R
    <3> QED BY <1>7 DEF First
  <2>2. ASSUME NEW n PROVE pick(n) = listed(n)
    <3>1. \A b \in F : Below(R, from, b) = {a \in from : Before(a, b)}
      BY <1>7
    <3> HIDE DEF R, F
    <3> QED BY <3>1
  <2>3. l = [n \in 1..Cardinality(F) |-> pick(n)]
    BY Zenon DEF Selection, from
  <2>4. l = [n \in 1..Cardinality(F) |-> listed(n)]
    <3> HIDE DEF l, F, pick, listed
    <3> QED BY <2>2, <2>3
  <2>5. Listed(R, from, PerRun, l) <=> l = [n \in 1..Cardinality(F) |-> listed(n)]
    <3> HIDE DEF R, F, l
    <3> QED BY <2>1, Zenon DEF Listed, listed
  <2> QED BY <2>4, <2>5
<1>9. /\ l \in Seq(from)
      /\ \A m, n \in 1..Len(l) : l[m] = l[n] => m = n
      /\ \A n \in 1..Len(l) : \A a \in from :
            <<a, l[n]>> \in R => \E m \in 1..(n - 1) : l[m] = a
  <2> HIDE DEF R, l
  <2> QED BY <1>1, <1>2, <1>6, <1>8, ListInOrder
<1> HIDE DEF R, l
<1>10. ASSUME NEW n \in 1..Len(l), NEW a \in from
       PROVE  Latest(order, l[n]) <= Latest(order, a) \/ \E m \in 1..(n - 1) : l[m] = a
  <2>1. l[n] \in from
    BY <1>9
  <2>2. CASE <<a, l[n]>> \in R
    BY <1>9, <2>2
  <2>3. CASE <<a, l[n]>> \notin R
    BY <1>3, <1>5, <2>1, <2>3
  <2> QED BY <2>2, <2>3
<1>11. l \in Seq(W)
  <2> HIDE DEF W
  <2> QED BY <1>1, <1>9
<1> QED BY <1>9, <1>10, <1>11 DEF Turns, l, from

-----------------------------------------------------------------------------
(* The attempts in turn, run after run.                                    *)

\* The setting of OldestFirst.
Alone ==
    /\ Mode # "complete_window" /\ Len(Variants) = 1 /\ Len(Count) = 1
    /\ \A c, d \in Collectors : c = d

RunFields == {"stage", "day", "sel", "variant", "calls"}

\* The batches of the calls that wait to be saved.
Called(q) == [n \in 1..Len(q) |-> q[n].batch]

\* The batches of each day, and those a run for that day may choose from.
Windows == [d \in Days |-> Window(d, universe)]
Eligible == [d \in Days |-> Candidates(d, today)]

\* A run r knows its day, and what it still has to do is in turn: W and C are the
\* batches and the candidates of the days, o the history.
RunInTurn(r, W, C, o) ==
    /\ r = [f \in RunFields |-> r[f]]
    /\ r.stage # "idle" => r.day \in DOMAIN W /\ r.variant = 1
    /\ r.stage = "fetch" => Turns(r.sel, W[r.day], C[r.day], o)
    /\ r.stage = "save" =>
          /\ (\E V : r.calls \in Seq(V)) /\ r.calls # <<>>
          /\ Turns(Called(r.calls), W[r.day], C[r.day], o)

ReceiptsTyped ==
    /\ entry \in [Keys -> Statuses]
    /\ order \in Seq(Keys) /\ Distinct(order)
    /\ today \in Days

AllInTurn ==
    /\ run = [c \in Collectors |-> run[c]]
    /\ \A c \in Collectors : RunInTurn(run[c], Windows, Eligible, order)

TurnInv == Bound /\ (Alone => ReceiptsTyped /\ AllInTurn)

\* In this setting a key is a batch of the one universe and the one variant.
LEMMA AloneKeys ==
    ASSUME Bound, Alone
    PROVE  /\ universe = 1 /\ setup.maxDay \in Nat \ {0}
           /\ \A d \in Days : Window(d, universe) \subseteq Batches
           /\ \A b : <<b, Variants[1]>>[1] = b
           /\ \A b \in Batches : <<b, Variants[1]>> \in Keys
           /\ \A k \in Keys : \A b : k[1] = b => k = <<b, Variants[1]>>
           /\ \A v \in VariantSet : v = Variants[1]
<1>1. setup \in Setups /\ setup.maxDay \in Nat \ {0} /\ Count \in Seq(Nat \ {0})
  BY FanoutConstants DEF Bound, Count
<1>2. universe = 1 /\ DOMAIN Count = {1}
  BY <1>1 DEF Bound, Alone
<1>3. VariantSet = {Variants[1]}
  <2>1. DOMAIN Variants = 1..Len(Variants) /\ Len(Variants) = 1
    BY <1>1, FanoutConstants DEF Alone, Variants
  <2>2. DOMAIN Variants = {1}
    BY <2>1
  <2> QED BY <2>2 DEF VariantSet, VariantsIn, Variants
<1>4. \A d \in Days : Window(d, universe) \subseteq Batches
  BY <1>2 DEF Window, Batches, BatchesOf, Days, Count
<1> QED BY <1>1, <1>2, <1>3, <1>4 DEF Keys

\* The oldest unfinished day, if there is one, is a day.
LEMMA PlansADay ==
    ASSUME Bound, Alone, today \in Days
    PROVE  PlannedDay \in Days
<1>1. Debt \in SUBSET Days /\ Days \in SUBSET Nat
  BY AloneKeys DEF Debt, Started, Days
<1>2. ASSUME Debt # {} PROVE Min(Debt) \in Days
  <2>1. PICK x \in Debt : \A y \in Debt : x <= y
    BY <1>1, <1>2, NatLeast
  <2>2. Min(Debt) \in Debt
    <3>1. Min(Debt) = CHOOSE z \in Debt : \A y \in Debt : z <= y
      BY Zenon DEF Min
    <3> QED BY <2>1, <3>1
  <2> QED BY <1>1, <2>2
<1> QED BY <1>2 DEF PlannedDay

\* What is last is what the code reads.
LEMMA LastAttempts ==
    \A b : LastAttempt(b) = Latest(order, b)
BY Zenon DEF LastAttempt, Latest

\* The checked property.
LEMMA TurnMeans == TurnInv => ReceiptsAreFollowed
<1> SUFFICES ASSUME TurnInv PROVE ReceiptsAreFollowed
  OBVIOUS
<1>1. PlannerMatchesSelector
  BY PlannerMeans DEF TurnInv
<1>2. ASSUME Alone, NEW c \in Collectors, run[c].stage = "save",
             NEW a \in Candidates(run[c].day, today)
      PROVE  LastAttempt(Head(run[c].calls).batch) <= LastAttempt(a)
  <2> DEFINE q == run[c].calls
             C == Candidates(run[c].day, today)
  <2>0. RunInTurn(run[c], Windows, Eligible, order)
    BY <1>2 DEF TurnInv, AllInTurn
  <2>1. (\E V : q \in Seq(V)) /\ q # <<>>
        /\ Turns(Called(q), Window(run[c].day, universe), C, order)
    BY <1>2, <2>0 DEF RunInTurn, Windows, Eligible
  <2> HIDE DEF q, C
  <2>2. Len(q) \in Nat /\ Len(q) > 0 /\ Head(q) = q[1]
    BY <2>1
  <2>3. Len(Called(q)) = Len(q) /\ Called(q)[1] = Head(q).batch
    BY <2>2 DEF Called
  <2>4. Latest(order, Called(q)[1]) <= Latest(order, a) \/ \E m \in 1..(1 - 1) : Called(q)[m] = a
    <3>1. 1 \in 1..Len(Called(q)) /\ a \in C
      BY <1>2, <2>2, <2>3 DEF C
    <3> QED BY <2>1, <3>1 DEF Turns
  <2>5. Latest(order, Head(q).batch) <= Latest(order, a)
    BY <2>3, <2>4
  <2> QED BY <2>5, LastAttempts DEF q
<1>3. OldestFirst
  BY <1>2 DEF OldestFirst, Alone
<1> QED BY <1>1, <1>3 DEF ReceiptsAreFollowed

\* At the start nothing is waited for.
LEMMA TurnStarts == Init => TurnInv
<1> SUFFICES ASSUME Init PROVE TurnInv
  OBVIOUS
<1>1. Bound
  <2>1. Len(setup.count) > 0 /\ setup.count \in Seq(Nat \ {0})
    BY FanoutConstants DEF Init
  <2> QED BY <2>1 DEF Bound, Init, Count
<1>2. ASSUME Alone PROVE ReceiptsTyped
  <2>1. entry \in [Keys -> Statuses]
    BY DEF Init, Statuses
  <2>2. today \in Days
    BY <1>1, <1>2, AloneKeys DEF Init, Days
  <2> QED BY <2>1, <2>2 DEF Init, ReceiptsTyped, Distinct
<1>3. AllInTurn
  BY DEF Init, AllInTurn, RunInTurn, RunFields, Idle
<1> QED BY <1>1, <1>2, <1>3 DEF TurnInv

\* The candidates are read from these.
LEMMA CandidatesStay ==
    ASSUME UNCHANGED <<setup, today, universe, entry>>
    PROVE  \A d : Candidates(d, today)' = Candidates(d, today)
BY DEF Candidates, Window, BatchState, Observed, Status, VariantSet, VariantsIn,
       Variants, Mode, Count

\* A collector goes on, and the receipts stay.
LEMMA RunKeeps ==
    ASSUME TurnInv, NEW c \in Collectors, NEW r, Alone => RunInTurn(r, Windows, Eligible, order),
           run' = [run EXCEPT ![c] = r],
           UNCHANGED <<setup, today, universe, entry, order>>
    PROVE  TurnInv'
<1>1. Bound' /\ (Alone' <=> Alone)
  BY DEF TurnInv, Bound, Alone, Count, Mode, Variants
<1>2. ASSUME Alone PROVE ReceiptsTyped'
  BY <1>2 DEF TurnInv, ReceiptsTyped, Keys, Batches, VariantSet, Days
<1>3. Windows' = Windows /\ Eligible' = Eligible
  <2>1. \A d : Window(d, universe)' = Window(d, universe)
    BY DEF Window, Count
  <2> QED BY <2>1, CandidatesStay DEF Windows, Eligible, Days
<1>4. ASSUME Alone PROVE AllInTurn'
  <2>1. /\ run = [d \in Collectors |-> run[d]]
        /\ \A d \in Collectors : RunInTurn(run[d], Windows, Eligible, order)
    BY <1>4 DEF TurnInv, AllInTurn
  <2>2. run' = [d \in Collectors |-> run'[d]]
    BY <2>1
  <2>3. \A d \in Collectors : RunInTurn(run'[d], Windows, Eligible, order)
    BY <1>4, <2>1
  <2> QED BY <1>3, <2>2, <2>3 DEF AllInTurn
<1> QED BY <1>1, <1>2, <1>4 DEF TurnInv

\* The planner picks a day.
LEMMA PlanKeeps ==
    ASSUME TurnInv, NEW c \in Collectors, Plan(c)
    PROVE  TurnInv'
<1> DEFINE r == [Idle EXCEPT !.stage = "planned", !.day = PlannedDay]
<1>1. ASSUME Alone PROVE RunInTurn(r, Windows, Eligible, order)
  <2>1. PlannedDay \in DOMAIN Windows
    BY <1>1, PlansADay DEF TurnInv, ReceiptsTyped, Windows
  <2> QED BY <2>1 DEF RunInTurn, RunFields, Idle
<1>2. run' = [run EXCEPT ![c] = r] /\ UNCHANGED <<setup, today, universe, entry, order>>
  BY DEF Plan
<1> HIDE DEF r
<1> QED BY <1>1, <1>2, RunKeeps

\* The collector chooses.
LEMMA SelectKeeps ==
    ASSUME TurnInv, NEW c \in Collectors, Select(c)
    PROVE  TurnInv'
<1> DEFINE sel == Selection(run[c].day, today)
           r == IF sel = <<>> THEN Idle ELSE [run[c] EXCEPT !.stage = "fetch", !.sel = sel]
<1>1. ASSUME Alone PROVE RunInTurn(r, Windows, Eligible, order)
  <2>1. RunInTurn(run[c], Windows, Eligible, order)
        /\ Bound /\ order \in Seq(Keys) /\ Mode # "complete_window"
    BY <1>1 DEF TurnInv, AllInTurn, ReceiptsTyped, Alone
  <2>2. CASE sel = <<>>
    BY <2>2 DEF RunInTurn, RunFields, Idle
  <2>3. CASE sel # <<>>
    <3>1. Turns(sel, Window(run[c].day, universe), Candidates(run[c].day, today), order)
      BY <2>1, SelectsInTurn
    <3>2. run[c].stage = "planned"
      BY DEF Select
    <3>3. Turns(sel, Windows[run[c].day], Eligible[run[c].day], order)
      <4>1. run[c].day \in Days
        BY <2>1, <3>2 DEF RunInTurn, Windows
      <4> HIDE DEF sel
      <4> QED BY <3>1, <4>1 DEF Windows, Eligible
    <3> HIDE DEF sel
    <3> QED BY <2>1, <2>3, <3>2, <3>3 DEF RunInTurn, RunFields
  <2> QED BY <2>2, <2>3
<1>2. run' = [run EXCEPT ![c] = r] /\ UNCHANGED <<setup, today, universe, entry, order>>
  BY DEF Select
<1> HIDE DEF r
<1> QED BY <1>1, <1>2, RunKeeps

\* The provider answers the first of them.
LEMMA FetchKeeps ==
    ASSUME TurnInv, NEW c \in Collectors, NEW a \in Answered(run[c].sel), Fetch(c, a)
    PROVE  TurnInv'
<1> DEFINE statuses == StatusesOf(a, Mode = "session_day_rotation" /\ run[c].day # today)
           calls == [n \in 1..Len(a) |-> [batch |-> run[c].sel[n], status |-> statuses[n]]]
           r == [run[c] EXCEPT !.stage = "save", !.calls = calls]
<1>0. run[c].stage = "fetch"
  BY DEF Fetch
<1>1. ASSUME Alone PROVE RunInTurn(r, Windows, Eligible, order)
  <2>1. RunInTurn(run[c], Windows, Eligible, order)
    BY <1>1 DEF TurnInv, AllInTurn
  <2>2. Turns(run[c].sel, Windows[run[c].day], Eligible[run[c].day], order)
    BY <1>0, <2>1 DEF RunInTurn
  <2>3. Len(a) \in 1..Len(run[c].sel) /\ Len(run[c].sel) \in Nat
    <3>1. run[c].sel \in Seq(Windows[run[c].day])
      BY <2>2 DEF Turns
    <3>2. PICK n \in 1..Len(run[c].sel) : a \in [1..n -> DOMAIN Receipted]
      BY DEF Answered
    <3>3. Len(a) = n
      BY <3>1, <3>2
    <3> QED BY <3>1, <3>3
  <2> HIDE DEF statuses
  <2>4. /\ \E V : calls \in Seq(V)
        /\ Len(calls) = Len(a) /\ calls # <<>>
        /\ \A n \in 1..Len(a) : calls[n].batch = run[c].sel[n]
    <3>1. calls \in Seq({calls[n] : n \in 1..Len(a)}) /\ Len(calls) = Len(a)
      BY <2>3
    <3>2. Len(calls) > 0
      BY <2>3, <3>1
    <3>3. \A n \in 1..Len(a) : calls[n].batch = run[c].sel[n]
      OBVIOUS
    <3> HIDE DEF calls
    <3> QED BY <3>1, <3>2, <3>3
  <2> HIDE DEF calls
  <2>5. Called(calls) = [n \in 1..Len(a) |-> run[c].sel[n]]
    BY <2>3, <2>4 DEF Called
  <2>6. Turns(Called(calls), Windows[run[c].day], Eligible[run[c].day], order)
    <3> DEFINE q == Called(calls)
               W == Windows[run[c].day]
               C == Eligible[run[c].day]
               l == run[c].sel
    <3>1. q \in Seq(W) /\ Len(q) <= Len(l) /\ \A n \in 1..Len(q) : q[n] = l[n]
      <4>1. l \in Seq(W)
        BY <2>2 DEF Turns
      <4>2. q = [n \in 1..Len(a) |-> l[n]]
        BY <2>5
      <4> HIDE DEF q, W, l
      <4> QED BY <2>3, <4>1, <4>2 DEF l
    <3>2. C \in SUBSET C /\ Turns(l, W, C, order)
      BY <2>2
    <3> HIDE DEF q, W, C, l
    <3>3. Turns(q, W, C, order)
      BY <3>1, <3>2, TurnsLess
    <3> QED BY <3>3 DEF q, W, C, l
  <2> QED BY <1>0, <2>1, <2>4, <2>6 DEF RunInTurn, RunFields
<1>2. ASSUME Alone PROVE run' = [run EXCEPT ![c] = r]
  <2>1. run = [d \in Collectors |-> run[d]] /\ run[c] = [f \in RunFields |-> run[c][f]]
    BY <1>2 DEF TurnInv, AllInTurn, RunInTurn
  <2>2. run' = [[run EXCEPT ![c].stage = "save"] EXCEPT ![c].calls = calls]
    BY Zenon DEF Fetch
  <2> HIDE DEF calls
  <2> QED BY <2>1, <2>2 DEF RunFields
<1>3. UNCHANGED <<setup, today, universe, entry, order>>
  BY DEF Fetch
<1> HIDE DEF r
<1>4. CASE Alone
  BY <1>1, <1>2, <1>3, <1>4, RunKeeps
<1>5. CASE ~Alone
  BY <1>3, <1>5 DEF TurnInv, Bound, Alone, Count, Mode, Variants
<1> QED BY <1>4, <1>5

\* A run dies.
LEMMA RunDies ==
    ASSUME TurnInv, NEW c \in Collectors, Crash(c)
    PROVE  TurnInv'
<1>1. RunInTurn(Idle, Windows, Eligible, order)
  BY DEF RunInTurn, RunFields, Idle
<1>2. run' = [run EXCEPT ![c] = Idle] /\ UNCHANGED <<setup, today, universe, entry, order>>
  BY DEF Crash
<1> QED BY <1>1, <1>2, RunKeeps

\* Midnight can only take candidates away.
LEMMA NewDayKeeps ==
    ASSUME TurnInv, NewDay
    PROVE  TurnInv'
<1>0. today' = today + 1 /\ UNCHANGED <<setup, universe, entry, order, run>>
  BY DEF NewDay
<1>1. Bound' /\ (Alone' <=> Alone)
  BY <1>0 DEF TurnInv, Bound, Alone, Count, Mode, Variants
<1> SUFFICES ASSUME Alone PROVE ReceiptsTyped' /\ AllInTurn'
  BY <1>1 DEF TurnInv
<1>2. /\ Bound /\ ReceiptsTyped /\ run = [c \in Collectors |-> run[c]]
      /\ \A c \in Collectors : RunInTurn(run[c], Windows, Eligible, order)
  BY DEF TurnInv, AllInTurn
<1>3. today \in Nat /\ today' \in Days' /\ Days \subseteq Nat
  BY <1>0, <1>2, AloneKeys DEF ReceiptsTyped, Days, NewDay
<1>4. ReceiptsTyped'
  BY <1>0, <1>2, <1>3 DEF ReceiptsTyped, Keys, Batches, VariantSet
<1>5. Windows' = Windows /\ DOMAIN Windows = Days
  <2>1. \A d : Window(d, universe)' = Window(d, universe)
    BY <1>0 DEF Window, Count
  <2> QED BY <1>0, <2>1 DEF Windows, Days
<1>6. \A d \in Days : Eligible'[d] \subseteq Eligible[d]
  <2>1. ASSUME NEW d \in Days PROVE Candidates(d, today)' \subseteq Candidates(d, today)
    <3>1. d < today => d < today'
      BY <1>0, <1>3
    <3>2. Mode # "complete_window" /\ Mode' = Mode
      BY <1>0 DEF Alone, Mode
    <3>3. Window(d, universe)' = Window(d, universe)
      BY <1>0 DEF Window, Count
    <3>4. \A b : BatchState(b)' = BatchState(b)
      BY <1>0 DEF BatchState, Observed, Status, VariantSet
    <3> DEFINE open == {b \in Window(d, universe) : BatchState(b) # "complete"}
    <3>5. Candidates(d, today) = IF Mode = "partition_continuation" /\ d < today
                                 THEN open ELSE Window(d, universe)
      BY <3>2 DEF Candidates
    <3>6. Candidates(d, today)' = IF Mode = "partition_continuation" /\ d < today'
                                  THEN open ELSE Window(d, universe)
      BY <3>2, <3>3, <3>4 DEF Candidates
    <3>7. open \subseteq Window(d, universe)
      OBVIOUS
    <3> HIDE DEF open
    <3> QED BY <3>1, <3>5, <3>6, <3>7
  <2>2. \A d \in Days : Eligible[d] = Candidates(d, today)
    BY DEF Eligible
  <2>3. \A d \in Days : Eligible'[d] = Candidates(d, today)'
    BY <1>0 DEF Eligible, Days
  <2> QED BY <2>1, <2>2, <2>3
<1>7. ASSUME NEW l, NEW d \in Days, Turns(l, Windows[d], Eligible[d], order)
      PROVE  Turns(l, Windows[d], Eligible'[d], order)
  <2>1. l \in Seq(Windows[d]) /\ Len(l) \in Nat /\ Eligible'[d] \in SUBSET Eligible[d]
    BY <1>6, <1>7 DEF Turns
  <2>2. Len(l) <= Len(l)
    BY <2>1
  <2> QED BY <1>7, <2>1, <2>2, TurnsLess
<1>8. \A c \in Collectors : RunInTurn(run[c], Windows, Eligible', order)
  BY <1>2, <1>5, <1>7 DEF RunInTurn
<1>9. AllInTurn'
  BY <1>0, <1>2, <1>5, <1>8 DEF AllInTurn
<1> QED BY <1>4, <1>9

\* The source changes only where it has more than one content.
LEMMA NewUniverseKeeps ==
    ASSUME TurnInv, NewUniverse
    PROVE  TurnInv'
<1>1. Len(Count) \in Nat
  <2>1. Count \in Seq(Nat \ {0})
    BY FanoutConstants DEF TurnInv, Bound, Count
  <2> QED BY <2>1
<1>2. Bound'
  BY <1>1 DEF TurnInv, Bound, NewUniverse, Count
<1>3. ~Alone'
  <2>1. universe \in 1..Len(Count) /\ universe < Len(Count) /\ Count' = Count
    BY DEF TurnInv, Bound, NewUniverse, Count
  <2>2. Len(Count') # 1
    <3> SUFFICES ASSUME Len(Count) = 1 PROVE FALSE
      BY <2>1
    <3>1. universe = 1 /\ universe < 1
      BY <2>1
    <3> QED BY <3>1
  <2> QED BY <2>2 DEF Alone
<1> QED BY <1>2, <1>3 DEF TurnInv

\* The batches of the calls after the first.
LEMMA CalledTail ==
    ASSUME NEW V, NEW q \in Seq(V), q # <<>>
    PROVE  /\ Tail(q) \in Seq(V) /\ Called(Tail(q)) = Tail(Called(q))
           /\ Len(q) > 1 => Tail(q) # <<>>
<1> DEFINE B == {q[n].batch : n \in 1..Len(q)}
           l == Called(q)
           t == Tail(q)
<1>1. Len(q) \in Nat /\ Len(q) > 0
  OBVIOUS
<1>2. l \in Seq(B) /\ Len(l) = Len(q) /\ \A n \in 1..Len(q) : l[n] = q[n].batch
  <2> DEFINE m == Len(q)
  <2>1. l = [n \in 1..m |-> q[n].batch] /\ \A n \in 1..m : q[n].batch \in B
    BY DEF Called
  <2> HIDE DEF B, m, l
  <2>2. m \in Nat
    BY <1>1 DEF m
  <2>3. l \in Seq(B) /\ Len(l) = m /\ \A n \in 1..m : l[n] = q[n].batch
    BY <2>1, <2>2
  <2> QED BY <2>3 DEF m
<1>3. t \in Seq(V) /\ Len(t) = Len(q) - 1 /\ \A i \in 1..Len(t) : t[i] = q[i + 1]
  BY HeadTailProperties
<1>4. /\ Tail(l) \in Seq(B) /\ Len(Tail(l)) = Len(q) - 1
      /\ \A i \in 1..Len(Tail(l)) : Tail(l)[i] = l[i + 1]
  <2>1. l # <<>>
    BY <1>1, <1>2
  <2> HIDE DEF l, B
  <2> QED BY <1>2, <2>1, HeadTailProperties
<1> DEFINE u == Tail(l)
<1>5. u = [i \in 1..(Len(q) - 1) |-> u[i]]
  <2>1. u \in Seq(B) /\ Len(u) = Len(q) - 1
    BY <1>4
  <2> HIDE DEF u, B
  <2>2. u = [i \in 1..Len(u) |-> u[i]]
    BY <2>1
  <2> QED BY <2>1, <2>2
<1> HIDE DEF t, u, l, B
<1>6. Called(t) = [i \in 1..(Len(q) - 1) |-> t[i].batch]
  BY <1>1, <1>3 DEF Called
<1>7. \A i \in 1..(Len(q) - 1) : u[i] = t[i].batch
  BY <1>1, <1>2, <1>3, <1>4 DEF u
<1>8. Called(t) = u
  BY <1>5, <1>6, <1>7
<1>9. Len(q) > 1 => t # <<>>
  BY <1>1, <1>3
<1> QED BY <1>3, <1>8, <1>9 DEF t, u, l

\* What is saved is the attempt of the batch whose turn it was.
LEMMA SaveKeeps ==
    ASSUME TurnInv, NEW c \in Collectors, NEW status \in Statuses, Save(c, status)
    PROVE  TurnInv'
<1> DEFINE q == run[c].calls
           d == run[c].day
           b == Head(q).batch
           key == <<b, Variants[1]>>
<1>0. run[c].stage = "save" /\ UNCHANGED <<setup, today, universe>>
  BY DEF Save
<1>1. Bound' /\ (Alone' <=> Alone)
  BY <1>0 DEF TurnInv, Bound, Alone, Count, Mode, Variants
<1> SUFFICES ASSUME Alone PROVE ReceiptsTyped' /\ AllInTurn'
  BY <1>1 DEF TurnInv
<1>2. /\ Bound /\ ReceiptsTyped /\ run = [x \in Collectors |-> run[x]]
      /\ RunInTurn(run[c], Windows, Eligible, order)
  BY DEF TurnInv, AllInTurn
<1>3. /\ run[c] = [f \in RunFields |-> run[c][f]] /\ d \in Days /\ run[c].variant = 1
      /\ (\E V : q \in Seq(V)) /\ q # <<>>
      /\ Turns(Called(q), Windows[d], Eligible[d], order)
  BY <1>0, <1>2 DEF RunInTurn, Windows
<1>4. /\ entry' = [entry EXCEPT ![key] = status] /\ order' = Touched(key)
      /\ run' = [x \in Collectors |-> run'[x]]
      /\ run'[c] = IF Len(q) > 1 THEN [run[c] EXCEPT !.calls = Tail(q)] ELSE Idle
  <2>1. ~(run[c].variant < Len(Variants))
    BY <1>3 DEF Alone
  <2>2. /\ entry' = [entry EXCEPT ![<<b, Variants[run[c].variant]>>] = status]
        /\ order' = Touched(<<b, Variants[run[c].variant]>>)
        /\ run' = [run EXCEPT ![c] =
              IF Len(@.calls) > 1 THEN [@ EXCEPT !.calls = Tail(run[c].calls)]
              ELSE IF @.variant < Len(Variants)
              THEN [@ EXCEPT !.stage = "fetch", !.variant = run[c].variant + 1,
                             !.calls = <<>>]
              ELSE Idle]
    BY Zenon DEF Save
  <2>3. entry' = [entry EXCEPT ![key] = status] /\ order' = Touched(key)
    BY <1>3, <2>2
  <2>4. run' = [x \in Collectors |-> run'[x]] /\ c \in DOMAIN run
    <3> HIDE DEF Idle
    <3>1. DOMAIN run = Collectors
      BY <1>2
    <3> QED BY <2>2, <3>1
  <2>5. ASSUME Len(q) > 1 PROVE run'[c] = [run[c] EXCEPT !.calls = Tail(q)]
    <3> HIDE DEF Idle
    <3> QED BY <2>2, <2>4, <2>5
  <2>6. ASSUME ~(Len(q) > 1) PROVE run'[c] = Idle
    <3> HIDE DEF Idle
    <3> QED BY <2>1, <2>2, <2>4, <2>6
  <2> QED BY <2>3, <2>4, <2>5, <2>6
<1> HIDE DEF q, d
<1>5. /\ Len(q) \in Nat /\ Len(q) > 0 /\ Called(q) # <<>> /\ Len(Called(q)) = Len(q)
      /\ Head(Called(q)) = b /\ Called(q) \in Seq(Windows[d]) /\ b \in Windows[d]
  <2>1. Len(q) \in Nat /\ Len(q) > 0 /\ Head(q) = q[1]
    BY <1>3
  <2>2. Len(Called(q)) = Len(q) /\ Called(q)[1] = b /\ Called(q) \in Seq(Windows[d])
    BY <1>3, <2>1 DEF Called, Turns
  <2> QED BY <2>1, <2>2
<1>6. b \in Batches /\ key \in Keys /\ key[1] = b /\ \A k \in Keys : k[1] = key[1] => k = key
  <2>1. b \in Batches
    BY <1>2, <1>3, <1>5, AloneKeys DEF Windows
  <2> HIDE DEF b
  <2> QED BY <1>2, <2>1, AloneKeys
<1> HIDE DEF b, key
<1>7. order' \in Seq(Keys) /\ Follows(order', order, b)
  <2>1. order \in Seq(Keys) /\ Distinct(order)
    BY <1>2 DEF ReceiptsTyped
  <2>2. Touched(key) \in Seq(Keys) /\ Follows(Touched(key), order, key[1])
    BY <1>6, <2>1, TouchMoves
  <2> QED BY <1>4, <1>6, <2>2
<1>8. entry' \in [Keys -> Statuses]
  BY <1>2, <1>4, <1>6 DEF ReceiptsTyped
<1>9. Keys' = Keys /\ Days' = Days /\ Windows' = Windows
  <2>1. \A x : Window(x, universe)' = Window(x, universe)
    BY <1>0 DEF Window, Count
  <2> QED BY <1>0, <2>1 DEF Keys, Batches, VariantSet, Days, Windows
<1>10. ReceiptsTyped'
  BY <1>0, <1>2, <1>7, <1>8, <1>9 DEF ReceiptsTyped, Follows
<1>11. Eligible'[d] \subseteq Eligible[d] \union {b}
  <2>1. ASSUME NEW e \in Days, NEW a \in Window(e, universe), a # b
        PROVE  BatchState(a)' = BatchState(a)
    <3>1. a \in Batches
      BY <1>2, <2>1, AloneKeys
    <3>2. \A v \in VariantSet : Status(a, v)' = Status(a, v)
      <4> SUFFICES ASSUME NEW v \in VariantSet PROVE Status(a, v)' = Status(a, v)
        OBVIOUS
      <4>1. <<a, v>> \in Keys /\ <<a, v>> # key
        BY <1>6, <2>1, <3>1 DEF Keys, key
      <4> QED BY <1>2, <1>4, <4>1 DEF ReceiptsTyped, Status
    <3>3. VariantSet' = VariantSet
      BY <1>0 DEF VariantSet
    <3> QED BY <3>2, <3>3 DEF BatchState, Observed
  <2>2. ASSUME NEW e \in Days
        PROVE  Candidates(e, today)' \subseteq Candidates(e, today) \union {b}
    <3>1. Mode # "complete_window" /\ Mode' = Mode
      BY <1>0 DEF Alone, Mode
    <3>2. Window(e, universe)' = Window(e, universe)
      BY <1>0 DEF Window, Count
    <3> DEFINE old == Mode = "partition_continuation" /\ e < today
    <3>3. Candidates(e, today) =
             IF old THEN {a \in Window(e, universe) : BatchState(a) # "complete"}
             ELSE Window(e, universe)
      BY <3>1 DEF Candidates
    <3>4. Candidates(e, today)' =
             IF old THEN {a \in Window(e, universe) : BatchState(a)' # "complete"}
             ELSE Window(e, universe)
      BY <1>0, <3>1, <3>2 DEF Candidates
    <3> HIDE DEF old
    <3> QED BY <2>1, <3>3, <3>4
  <2>3. \A e \in Days : /\ Eligible[e] = Candidates(e, today)
                        /\ Eligible'[e] = Candidates(e, today)'
    BY <1>0, <1>9 DEF Eligible
  <2>4. \A e \in Days : Eligible'[e] \subseteq Eligible[e] \union {b}
    BY <2>2, <2>3
  <2> QED BY <1>3, <2>4
<1>12. Turns(Tail(Called(q)), Windows[d], Eligible'[d], order')
  BY <1>3, <1>5, <1>7, <1>11, TurnsTail
<1>13. RunInTurn(run'[c], Windows, Eligible', order')
  <2>1. c \in DOMAIN run
    BY <1>2
  <2>2. CASE Len(q) > 1
    <3>1. run'[c] = [run[c] EXCEPT !.calls = Tail(q)]
      BY <1>4, <2>2
    <3>2. (\E V : Tail(q) \in Seq(V)) /\ Tail(q) # <<>> /\ Called(Tail(q)) = Tail(Called(q))
      <4>1. PICK V : q \in Seq(V)
        BY <1>3
      <4> QED BY <1>3, <2>2, <4>1, CalledTail
    <3>3. run'[c].stage = "save" /\ run'[c].day = d /\ run'[c].variant = 1
          /\ run'[c].calls = Tail(q) /\ run'[c] = [f \in RunFields |-> run'[c][f]]
      BY <1>0, <1>3, <3>1 DEF RunFields, d
    <3>4. d \in DOMAIN Windows
      BY <1>3 DEF Windows
    <3> QED BY <1>12, <3>2, <3>3, <3>4 DEF RunInTurn
  <2>3. CASE ~(Len(q) > 1)
    <3>1. run'[c] = Idle
      BY <1>4, <2>3
    <3> QED BY <3>1 DEF RunInTurn, RunFields, Idle
  <2> QED BY <2>2, <2>3
<1>14. AllInTurn'
  <2>1. run' = [x \in Collectors |-> run'[x]]
    BY <1>2, <1>4
  <2>2. \A x \in Collectors : RunInTurn(run'[x], Windows', Eligible', order')
    BY <1>9, <1>13 DEF Alone
  <2> QED BY <2>1, <2>2 DEF AllInTurn
<1> QED BY <1>10, <1>14

\* Every step keeps the attempts in turn.
LEMMA TurnStep == TurnInv /\ [Next]_vars => TurnInv'
<1> SUFFICES ASSUME TurnInv, [Next]_vars PROVE TurnInv'
  OBVIOUS
<1>1. CASE UNCHANGED vars
  <2>1. UNCHANGED <<setup, today, universe, entry, order, run>>
    BY <1>1 DEF vars
  <2>2. Windows' = Windows /\ Eligible' = Eligible
    <3>1. \A d : Window(d, universe)' = Window(d, universe)
      BY <2>1 DEF Window, Count
    <3> QED BY <2>1, <3>1, CandidatesStay DEF Windows, Eligible, Days
  <2>3. Bound' /\ (Alone' <=> Alone)
    BY <2>1 DEF TurnInv, Bound, Alone, Count, Mode, Variants
  <2>4. ReceiptsTyped' <=> ReceiptsTyped
    BY <2>1 DEF ReceiptsTyped, Keys, Batches, VariantSet, Days
  <2>5. AllInTurn' <=> AllInTurn
    BY <2>1, <2>2 DEF AllInTurn
  <2> QED BY <2>3, <2>4, <2>5 DEF TurnInv
<1>2. ASSUME NEW c \in Collectors, Plan(c) PROVE TurnInv'
  BY <1>2, PlanKeeps
<1>3. ASSUME NEW c \in Collectors, Select(c) PROVE TurnInv'
  BY <1>3, SelectKeeps
<1>4. ASSUME NEW c \in Collectors, Crash(c) PROVE TurnInv'
  BY <1>4, RunDies
<1>5. ASSUME NEW c \in Collectors, NEW status \in Statuses, Save(c, status) PROVE TurnInv'
  BY <1>5, SaveKeeps
<1>6. ASSUME NEW c \in Collectors, NEW a \in Answered(run[c].sel), Fetch(c, a) PROVE TurnInv'
  BY <1>6, FetchKeeps
<1> QED BY <1>1, <1>2, <1>3, <1>4, <1>5, <1>6, NewDayKeeps, NewUniverseKeeps DEF Next

\* The receipts decide, and in turn: planner and collector judge a window alike;
\* and outside complete_window, with one collector, variant and universe,
\* whatever fails, dies or passes midnight, no attempt is recorded of a batch
\* while another candidate of its window has waited longer
\* (provider_native_ingest.py, _select_resumable_fanout_batches).
THEOREM ReceiptsFollowed == EitherSpec => []ReceiptsAreFollowed
<1>1. EitherInit => TurnInv
  BY TurnStarts DEF EitherInit
<1>2. TurnInv /\ [EitherNext]_all => TurnInv'
  <2>1. [EitherNext]_all => [Next]_vars
    BY DEF EitherNext, all
  <2> QED BY <2>1, TurnStep
<1>3. EitherSpec => EitherInit /\ [][EitherNext]_all
  BY PTL DEF EitherSpec
<1> QED BY <1>1, <1>2, <1>3, TurnMeans, PTL

=============================================================================
