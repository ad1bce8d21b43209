---------------------------- MODULE ScheduleRun ----------------------------
(***************************************************************************)
(* The collector: a timer (or an operator) starts short-lived processes, of *)
(* which the lock file lets one collect at a time.  An automatic process plans the    *)
(* due requests, admits them against the rate budget (one unit each), and   *)
(* executes them against a second ledger that counts real provider calls.   *)
(* When an operator left an on-demand selector, the service runs that batch *)
(* instead, once.                                                           *)
(*                                                                         *)
(* A plan is one dataset and window; its calls are persisted together at    *)
(* the end (IngestStore and ResumableFanout look inside).  Its receipt      *)
(* keeps it from being due for an interval whose length is of no account    *)
(* here (the retry delay, the refresh interval, the time to the next        *)
(* window). Then a plan that failed is due again, and so is one that        *)
(* repeats: a current request of a source that moves on, a correction, a    *)
(* snapshot. Only a window that is covered stays answered.                  *)
(***************************************************************************)
EXTENDS Naturals, SequencesExt

CONSTANTS
    Processes,
    Unit,          \* the one process of the systemd service; others are manual runs
    Plans,         \* the plans, named in execution order: 1, 2, ...
    Provider,      \* of each plan: "tushare" or "firecrawl"
    Api,           \* of each plan
    Calls,         \* of each plan: the calls one complete execution takes
    Repeats,       \* of each plan: it is asked again although it was answered
    Attempts,      \* attempts per call
    AccountLimit, ProviderLimit, ApiLimit,
    Batches,       \* the on-demand batches operators may leave
    MaxCrashes,    \* bound: processes that die
    Nobody

(* What the code and the rate tables assure of the constants. *)
ScheduleConstants ==
    /\ IsFiniteSet(Plans) /\ Plans = 1..Cardinality(Plans)
    /\ Provider \in [Plans -> {"tushare", "firecrawl"}]
    /\ Repeats \in [Plans -> BOOLEAN]
    /\ Calls \in [Plans -> Nat \ {0}] /\ Attempts \in Nat \ {0}
    /\ AccountLimit \in Nat /\ ProviderLimit \in Nat /\ ApiLimit \in Nat
    /\ MaxCrashes \in Nat
    /\ Unit \in Processes /\ Nobody \notin Processes \union Batches

VARIABLES
    lock,      \* the process that holds the schedule lock
    proc,      \* what each process is doing
    outcome,   \* the last receipt of each plan, while it keeps the plan from being due
    made,      \* provider calls the current execution of the lock made, by plan
    selector,  \* the on-demand selector file exists
    batch,     \* the on-demand batch file
    ran,       \* how often each on-demand batch was executed
    crashes

vars == <<lock, proc, outcome, made, selector, batch, ran, crashes>>

Stages == {"off", "selected", "locking", "plan", "execute", "batch", "drop"}
Off == [stage |-> "off", demand |-> FALSE, queue |-> <<>>, left |-> 0, tries |-> 0,
        used |-> [n \in Plans |-> 0]]

TypeOK ==
    /\ lock \in Processes \union {Nobody}
    /\ \A p \in Processes :
          /\ proc[p].stage \in Stages
          /\ proc[p].queue \in Seq(Plans)
          /\ proc[p].left \in Nat /\ proc[p].tries \in 0..Attempts
          /\ proc[p].used \in [Plans -> Nat]
    /\ outcome \in [Plans -> {"none", "success", "failed", "exhausted"}]
    /\ made \in [Plans -> Nat]
    /\ batch \in Batches \union {Nobody} /\ ran \in [Batches -> Nat]
    /\ selector \in BOOLEAN /\ crashes \in 0..MaxCrashes

Init ==
    /\ lock = Nobody
    /\ proc = [p \in Processes |-> Off]
    /\ outcome = [n \in Plans |-> "none"]
    /\ made = [n \in Plans |-> 0]
    /\ selector = FALSE /\ batch = Nobody
    /\ ran = [b \in Batches |-> 0]
    /\ crashes = 0

-----------------------------------------------------------------------------
(* The budget.                                                             *)

Sum(count, S) == FoldFunctionOnSet(+, 0, count, S)
SameProvider(n) == {m \in Plans : Provider[m] = Provider[n]}
SameApi(n) == {m \in SameProvider(n) : Api[m] = Api[n]}

\* A count of calls, or of plans, is within the three limits.
Fits(count) ==
    /\ Sum(count, Plans) <= AccountLimit
    /\ \A n \in Plans : /\ Sum(count, SameProvider(n)) <= ProviderLimit
                        /\ Sum(count, SameApi(n)) <= ApiLimit

\* One more unit for plan n fits all three limits.
Affordable(count, n) ==
    /\ Sum(count, Plans) < AccountLimit
    /\ Sum(count, SameProvider(n)) < ProviderLimit
    /\ Sum(count, SameApi(n)) < ApiLimit

\* The due plans, in execution order.
Due == SelectSeq([k \in 1..Cardinality(Plans) |-> k], LAMBDA n : outcome[n] = "none")

\* plan_runs: each due plan takes one unit of the budget or is skipped.
Admitted ==
    LET Admit(acc, n) ==
            IF Affordable(acc.count, n)
            THEN [queue |-> Append(acc.queue, n), count |-> [acc.count EXCEPT ![n] = @ + 1]]
            ELSE acc
    IN  FoldLeft(Admit, [queue |-> <<>>, count |-> [n \in Plans |-> 0]], Due).queue

-----------------------------------------------------------------------------
(* Starting a process.                                                     *)

\* While the service is idle an operator leaves a batch, and the selector that
\* systemd turns into the environment of the next service process.
LeaveBatch(b) ==
    /\ proc[Unit].stage = "off"
    /\ ran[b] = 0
    /\ batch' = b /\ selector' = TRUE
    /\ UNCHANGED <<lock, proc, outcome, made, ran, crashes>>

\* The timer or a manual start; only the service reads the selector.
Start(p) ==
    /\ proc[p].stage = "off"
    /\ LET demand == p = Unit /\ selector
       IN  proc' = [proc EXCEPT ![p] =
              [Off EXCEPT !.stage = IF demand THEN "selected" ELSE "locking",
                          !.demand = demand]]
    /\ UNCHANGED <<lock, outcome, made, selector, batch, ran, crashes>>

\* Fault: the selector is removed together with the batch file, at the end.
ConsumeLater(p) ==
    /\ proc[p].stage = "selected"
    /\ proc' = [proc EXCEPT ![p].stage = "locking"]
    /\ UNCHANGED <<lock, outcome, made, selector, batch, ran, crashes>>

\* _consume_batch_selector: the selector goes before anything is done.
Consume(p) ==
    /\ proc[p].stage = "selected"
    /\ selector' = FALSE
    /\ proc' = [proc EXCEPT ![p].stage = "locking"]
    /\ UNCHANGED <<lock, outcome, made, batch, ran, crashes>>

\* Fault: the lock is taken whoever holds it.
LockAnyway(p) ==
    /\ proc[p].stage = "locking" /\ ~proc[p].demand
    /\ lock' = p
    /\ made' = [n \in Plans |-> 0]
    /\ proc' = [proc EXCEPT ![p].stage = "plan"]
    /\ UNCHANGED <<outcome, selector, batch, ran, crashes>>

\* exclusive_schedule_lock does not wait: a busy process ends (exit code 75),
\* an on-demand one after removing its batch file.  The on-demand batch is
\* executed under the lock and without the rate ledger.
Lock(p) ==
    LET demand == proc[p].demand
    IN  /\ proc[p].stage = "locking"
        /\ IF lock = Nobody
           THEN /\ lock' = p
                /\ made' = [n \in Plans |-> 0]
                /\ ran' = IF demand THEN [ran EXCEPT ![batch] = @ + 1] ELSE ran
                /\ proc' = [proc EXCEPT ![p].stage = IF demand THEN "batch" ELSE "plan"]
           ELSE /\ UNCHANGED <<lock, made, ran>>
                /\ proc' = [proc EXCEPT ![p] =
                      IF demand THEN [@ EXCEPT !.stage = "drop"] ELSE Off]
        /\ UNCHANGED <<outcome, selector, batch, crashes>>

BatchEnds(p) ==
    /\ proc[p].stage = "batch"
    /\ lock' = Nobody
    /\ proc' = [proc EXCEPT ![p].stage = "drop"]
    /\ UNCHANGED <<outcome, made, selector, batch, ran, crashes>>

DropBatch(p) ==
    /\ proc[p].stage = "drop"
    /\ batch' = Nobody
    /\ proc' = [proc EXCEPT ![p] = Off]
    /\ UNCHANGED <<lock, outcome, made, selector, ran, crashes>>

-----------------------------------------------------------------------------
(* run_schedule.                                                           *)

\* The process with the next plans; the lock is released after the last one.
Continue(p, queue, used) ==
    IF queue = <<>>
    THEN /\ proc' = [proc EXCEPT ![p] = Off]
         /\ lock' = Nobody
    ELSE /\ proc' = [proc EXCEPT ![p] =
               [@ EXCEPT !.stage = "execute", !.queue = queue, !.left = Calls[Head(queue)],
                         !.tries = 0, !.used = used]]
         /\ UNCHANGED lock

MakePlan(p) ==
    /\ proc[p].stage = "plan"
    /\ Continue(p, Admitted, proc[p].used)
    /\ UNCHANGED <<outcome, made, selector, batch, ran, crashes>>

\* The execution of the head plan is over: its receipts are written.
Finish(p, result, used) ==
    /\ outcome' = [outcome EXCEPT ![Head(proc[p].queue)] = result]
    /\ Continue(p, Tail(proc[p].queue), used)

\* Fault: only the first attempt of a call is charged to the ledger.
ChargedOnce(p) ==
    LET n == Head(proc[p].queue)
    IN  IF proc[p].tries = 0 THEN [proc[p].used EXCEPT ![n] = @ + 1] ELSE proc[p].used

\* consume: every attempt of every call is charged.
Charged(p) == [proc[p].used EXCEPT ![Head(proc[p].queue)] = @ + 1]

\* One attempt of a call that the ledger lets through.
Call(p, ok) ==
    LET n == Head(proc[p].queue)
        again == [proc EXCEPT ![p].used = Charged(p)]
    IN  /\ proc[p].stage = "execute"
        /\ Affordable(proc[p].used, n)
        /\ made' = [made EXCEPT ![n] = @ + 1]
        /\ \/ /\ ok /\ proc[p].left = 1
              /\ Finish(p, "success", Charged(p))
           \/ /\ ok /\ proc[p].left > 1
              /\ proc' = [again EXCEPT ![p].left = @ - 1, ![p].tries = 0]
              /\ UNCHANGED <<lock, outcome>>
           \/ /\ ~ok /\ proc[p].tries + 1 < Attempts
              /\ proc' = [again EXCEPT ![p].tries = @ + 1]
              /\ UNCHANGED <<lock, outcome>>
           \/ /\ ~ok /\ proc[p].tries + 1 = Attempts
              /\ Finish(p, "failed", Charged(p))
        /\ UNCHANGED <<selector, batch, ran, crashes>>

\* The ledger refuses.  The Tushare adapter turns RequestBudgetExceeded into a
\* resource_budget failure, which is not retried; the Firecrawl adapter into a
\* provider_error, which is.  Either way the plan ends with a failed receipt.
Refuse(p) ==
    LET n == Head(proc[p].queue)
    IN  /\ proc[p].stage = "execute"
        /\ ~Affordable(proc[p].used, n)
        /\ IF Provider[n] = "firecrawl" /\ proc[p].tries + 1 < Attempts
           THEN /\ proc' = [proc EXCEPT ![p].tries = @ + 1]
                /\ UNCHANGED <<lock, outcome>>
           ELSE Finish(p, "exhausted", proc[p].used)
        /\ UNCHANGED <<made, selector, batch, ran, crashes>>

\* The process dies; the kernel drops its lock, files stay as they are.
Crash(p) ==
    /\ proc[p].stage # "off" /\ crashes < MaxCrashes
    /\ crashes' = crashes + 1
    /\ proc' = [proc EXCEPT ![p] = Off]
    /\ lock' = IF lock = p THEN Nobody ELSE lock
    /\ UNCHANGED <<outcome, made, selector, batch, ran>>

\* Fault: windows that are covered are asked again after the interval.
ElapseAnyway(n) ==
    /\ outcome[n] # "none"
    /\ outcome' = [outcome EXCEPT ![n] = "none"]
    /\ UNCHANGED <<lock, proc, made, selector, batch, ran, crashes>>

\* The interval after the last receipt of n is over (_dataset_plans).
Elapse(n) ==
    /\ \/ outcome[n] \in {"failed", "exhausted"}
       \/ outcome[n] = "success" /\ Repeats[n]
    /\ outcome' = [outcome EXCEPT ![n] = "none"]
    /\ UNCHANGED <<lock, proc, made, selector, batch, ran, crashes>>

Work(p) ==
    \/ Start(p) \/ Consume(p) \/ Lock(p) \/ BatchEnds(p) \/ DropBatch(p)
    \/ MakePlan(p) \/ Refuse(p) \/ \E ok \in BOOLEAN : Call(p, ok)

Next ==
    \/ \E p \in Processes : Work(p) \/ Crash(p)
    \/ \E b \in Batches : LeaveBatch(b)
    \/ \E n \in Plans : Elapse(n)

Spec == Init /\ [][Next]_vars

\* The timer keeps starting processes, a started process goes on and intervals
\* end, and from some time on the provider answers.
Undisturbed ==
    \/ \E n \in Plans : Elapse(n)
    \/ \E p \in Processes :
        \/ Start(p) \/ Consume(p) \/ Lock(p) \/ BatchEnds(p) \/ DropBatch(p)
        \/ MakePlan(p) \/ Refuse(p) \/ Call(p, TRUE)

FairSpec ==
    /\ Spec
    /\ \A p \in Processes : WF_vars(Work(p)) /\ SF_vars(Lock(p) /\ lock = Nobody)
    /\ \A n \in Plans : WF_vars(Elapse(n))
    /\ <>[][Undisturbed]_vars

-----------------------------------------------------------------------------
(* Properties.                                                             *)

\* The provider calls really made under one holding of the lock, retries and
\* refused plans included, respect the account, provider and API limits.
BudgetHonoured == Fits(made)

\* At most one process plans, calls the provider or runs a batch.
OneCollector ==
    \A p, q \in Processes :
        {proc[p].stage, proc[q].stage} \subseteq {"plan", "execute", "batch"} => p = q

\* An on-demand batch is started at most once: a process that is killed leaves
\* the batch file behind, and no later start of the service may replay it.
BatchAtMostOnce == \A b \in Batches : ran[b] <= 1

\* What is paid for is counted and never repeated, by one process at a time.
WorkIsBounded == OneCollector /\ BudgetHonoured /\ BatchAtMostOnce

\* The plans that may take budget before n in every run, for they repeat.
Ahead(n) == {m \in 1..(n - 1) : Repeats[m]}

\* They leave enough of it for n, and for each plan before n: the calls of all
\* of them fit one run (config/provider_native_schedule.yaml:26-34 sizes the
\* event budget so).
Sustained(n) ==
    \A k \in 1..n :
        Fits([m \in Plans |-> IF m \in Ahead(k) \union {k} THEN Calls[m] ELSE 0])

\* If the provider fails for a while only, every plan is answered, and again
\* and again if it repeats, however soon the plans before it are due again;
\* unless those that repeat use up the budget of every run by themselves, and
\* the order starves what comes after them.
EveryPlanCollected == \A n \in Plans : Sustained(n) => []<>(outcome[n] = "success")

\* Claimed by the comment at tools/run_provider_native_schedule.py:511-514:
\* "Budget exhaustion is a planned consumption stop, not a dataset failure".
ExhaustionIsNoFailure == \A n \in Plans : outcome[n] # "exhausted"
=============================================================================
