-------------------------- MODULE ResumableFanout --------------------------
(***************************************************************************)
(* Resumable fan-out: a request window too large for one run is cut into   *)
(* numbered batches of a frozen universe of values, and run after run picks *)
(* up where the receipts say the last one stopped.  Two programs read the   *)
(* same receipts and must agree: the cadence planner (is the window done?)  *)
(* and the collector (which batches next?).                                 *)
(*                                                                         *)
(* Mode is the binding's progress_mode.  The receipt history is kept as     *)
(* what its readers take from it: the last entry of every batch and variant *)
(* and the order of those entries.  Writers hold the authority lock and     *)
(* stamp finished_at inside the transaction, so commit order is time order. *)
(* Intervals and retry delays only postpone a plan and are left out.        *)
(***************************************************************************)
EXTENDS Naturals, SequencesExt

CONSTANTS
    Setups,      \* registry bindings and their worlds: one is chosen for good
    Collectors   \* processes that may collect the dataset

Modes == {"complete_window", "session_day_rotation", "partition_continuation"}
AnswerKinds == {"rows", "stale", "empty", "unfit", "flood", "failed", "refused"}

\* A binding: its progress mode, request variants, max_batches_per_run and
\* continuation_max_age_days.  Its world: the batches of each successive
\* content of the fan-out source (count), what the provider may answer to the
\* batch of an index, and the bounds of the model.
ASSUME FanoutConstants ==
    \A s \in Setups :
        /\ s.mode \in Modes
        /\ DOMAIN s.variants = 1..Len(s.variants) /\ Len(s.variants) > 0
        /\ Len(s.count) > 0 /\ s.count \in Seq(Nat \ {0})
        /\ s.perRun \in Nat \ {0} /\ s.maxAge \in Nat
        /\ s.maxDay \in Nat \ {0} /\ s.maxCrashes \in Nat
        /\ \A u \in DOMAIN s.count : \A i \in 1..s.count[u] :
              s.answers[i] \subseteq AnswerKinds /\ s.answers[i] # {}

VARIABLES
    setup,
    today,     \* the local day
    universe,  \* the current contents of the fan-out source
    entry,     \* the status of the last receipt of each batch and variant
    order,     \* batches and variants by their last receipt, latest last
    run,       \* what each collector is doing
    crashes

vars == <<setup, today, universe, entry, order, run, crashes>>

Mode == setup.mode
Count == setup.count
Variants == setup.variants
PerRun == setup.perRun
Answers == setup.answers

Days == 1..setup.maxDay
Universes == DOMAIN Count
BatchesOf(s) == UNION {(1..s.maxDay) \X {u} \X (1..s.count[u]) : u \in DOMAIN s.count}
VariantsIn(s) == {s.variants[n] : n \in DOMAIN s.variants}
Batches == BatchesOf(setup)
VariantSet == VariantsIn(setup)

\* "stale" is a success receipt whose rows were never validated; "blocked" is
\* a failed receipt with a non-retryable error.
Statuses == {"none", "success", "stale", "empty", "failed", "blocked"}
Keys == Batches \X VariantSet

Idle == [stage |-> "idle", day |-> 1, sel |-> <<>>, variant |-> 1, calls |-> <<>>]

TypeOK ==
    /\ setup \in Setups
    /\ today \in Days /\ universe \in Universes
    /\ entry \in [Keys -> Statuses]
    /\ order \in Seq(Keys) /\ Len(order) <= Cardinality(Keys)
    /\ \A c \in Collectors :
          /\ run[c].stage \in {"idle", "planned", "fetch", "save"}
          /\ run[c].day \in Days /\ run[c].variant \in DOMAIN Variants
          /\ run[c].sel \in Seq(Batches) /\ Len(run[c].sel) <= PerRun
          /\ run[c].calls \in Seq([batch : Batches, status : Statuses \ {"none"}])
    /\ crashes \in 0..setup.maxCrashes

Init ==
    /\ setup \in Setups
    /\ today = 1
    /\ universe = 1
    /\ entry = [k \in Keys |-> "none"]
    /\ order = <<>>
    /\ run = [c \in Collectors |-> Idle]
    /\ crashes = 0

-----------------------------------------------------------------------------
(* Reading the receipts.                                                   *)

Day(b) == b[1]
Index(b) == b[3]
Window(d, u) == {<<d, u, i>> : i \in 1..Count[u]}
Status(b, v) == entry[<<b, v>>]
Observed(b, v) == Status(b, v) \in {"success", "stale", "empty"}
Attempted(b) == \E v \in VariantSet : Status(b, v) # "none"

\* Fault: one observed variant completes a batch.
BatchStateAnyVariant(b) ==
    IF \E v \in VariantSet : Status(b, v) = "failed" THEN "failed"
    ELSE IF \E v \in VariantSet : Status(b, v) = "blocked" THEN "blocked"
    ELSE IF \E v \in VariantSet : Observed(b, v) THEN "complete"
    ELSE "pending"

\* _resumable_batch_state
BatchState(b) ==
    IF \E v \in VariantSet : Status(b, v) = "failed" THEN "failed"
    ELSE IF \E v \in VariantSet : Status(b, v) = "blocked" THEN "blocked"
    ELSE IF \A v \in VariantSet : Observed(b, v) THEN "complete"
    ELSE "pending"

\* The position of a batch's last receipt of any variant; 0 if there is none.
LastAttempt(b) ==
    Max({0} \union {n \in 1..Len(order) : order[n][1] = b})

\* Fault: batches are served by index alone.
BeforeByIndex(a, b) == Index(a) < Index(b)

\* The order of service: least recently attempted first, then by index.
Before(a, b) ==
    \/ Mode # "complete_window" /\ LastAttempt(a) < LastAttempt(b)
    \/ /\ Mode = "complete_window" \/ LastAttempt(a) = LastAttempt(b)
       /\ Index(a) < Index(b)

\* The batches a run may choose from: retryable failures first and then the
\* pending ones (complete_window), everything (rotation), everything but what
\* a past day has already observed (continuation).
Candidates(d, asOf) ==
    LET window == Window(d, universe)
        failed == {b \in window : BatchState(b) = "failed"}
    IN  IF Mode = "complete_window"
        THEN IF failed # {} THEN failed ELSE {b \in window : BatchState(b) = "pending"}
        ELSE IF Mode = "partition_continuation" /\ d < asOf
        THEN {b \in window : BatchState(b) # "complete"}
        ELSE window

\* _select_resumable_fanout_batches: the first of them, as many as a run takes.
Selection(d, asOf) ==
    LET from == Candidates(d, asOf)
        ahead(b) == Cardinality({a \in from : Before(a, b)})
        chosen == {b \in from : ahead(b) < PerRun}
    IN  [n \in 1..Cardinality(chosen) |-> CHOOSE b \in chosen : ahead(b) = n - 1]

-----------------------------------------------------------------------------
(* The planner.                                                            *)

\* Fault: receipts of an earlier universe are left out of the check, and its
\* batch count is taken on trust.
RetiredByCount(d) ==
    LET observed == {b \in Batches : Day(b) = d /\ \A v \in VariantSet : Observed(b, v)}
    IN  Cardinality(observed) >= Count[universe]

\* _resumable_window_completed_at.  The dated planner takes the receipts of
\* every universe and gives up when it sees two; the continuation planner
\* passes only those of the current one.  Rotation is never done.
Retired(d) ==
    /\ Mode # "session_day_rotation"
    /\ Mode = "complete_window" =>
          ~\E b \in Batches : Day(b) = d /\ b \notin Window(d, universe) /\ Attempted(b)
    /\ \A b \in Window(d, universe), v \in VariantSet : Observed(b, v)

\* _continuation_plans: windows started under the current universe.
Started == {d \in Days : \E b \in Window(d, universe) : Attempted(b)}
Debt == {d \in Started : d < today /\ d + setup.maxAge >= today /\ ~Retired(d)}

\* Fault: the oldest unfinished day is always served first.
PlannedDayDebtFirst == IF Debt # {} THEN Min(Debt) ELSE today

\* The current day, except directly after it was served while an older day is
\* unfinished.
PlannedDay ==
    LET lanes == {today} \union (IF Debt = {} THEN {} ELSE {Min(Debt)})
        turns == {n \in 1..Len(order) : \E d \in lanes : order[n][1] \in Window(d, universe)}
        currentWasLast == turns # {} /\ Day(order[Max(turns)][1]) = today
    IN  IF Mode = "partition_continuation" /\ Debt # {} /\ currentWasLast
        THEN Min(Debt) ELSE today

Plan(c) ==
    /\ run[c].stage = "idle"
    /\ Mode = "complete_window" => ~Retired(today)
    /\ run' = [run EXCEPT ![c] = [Idle EXCEPT !.stage = "planned", !.day = PlannedDay]]
    /\ UNCHANGED <<setup, today, universe, entry, order, crashes>>

-----------------------------------------------------------------------------
(* One collector run.                                                      *)

\* The receipt of a call that was not rejected.  "unfit" rows are refused by the
\* row contract and fail their call alone; "flood" is the page that takes the
\* variant over its row or byte budget; "refused" is a failure with one of
\* _NON_RETRYABLE_FANOUT_ERRORS.
Receipted == [rows |-> "success", stale |-> "stale", empty |-> "empty",
              unfit |-> "blocked", flood |-> "success",
              failed |-> "failed", refused |-> "blocked"]
Failures == {"failed", "refused"}

\* Read the receipts and choose the batches.  An empty choice ends the run
\* without a provider call and without a receipt.
Select(c) ==
    LET sel == Selection(run[c].day, today)
    IN  /\ run[c].stage = "planned"
        /\ run' = [run EXCEPT ![c] =
              IF sel = <<>> THEN Idle ELSE [@ EXCEPT !.stage = "fetch", !.sel = sel]]
        /\ UNCHANGED <<setup, today, universe, entry, order, crashes>>

\* The answers to the chosen batches: an exhausted budget or a failure that
\* survives its retries fails the variant and ends it.
FailedVariant(a) == a[Len(a)] \in Failures \union {"flood"}

Answered(sel) ==
    {a \in UNION {[1..n -> DOMAIN Receipted] : n \in 1..Len(sel)} :
        /\ \A n \in 1..Len(a) : a[n] \in Answers[Index(sel[n])]
        /\ \A n \in 1..(Len(a) - 1) : a[n] \notin Failures \union {"flood"}
        /\ Len(a) < Len(sel) => FailedVariant(a)}

\* _persist_provider_execution.  Where a day must match, every answer of every
\* outcome is validated and one bad answer rejects the whole variant.  In
\* complete_window mode a variant that failed skips the validation and keeps
\* what it has; otherwise one bad answer rejects the whole variant too.
StatusesOf(a, late) ==
    LET bad == late \/ \E n \in 1..Len(a) : a[n] = "stale"
        rejected == bad /\ (Mode # "complete_window" \/ ~FailedVariant(a))
    IN  [n \in 1..Len(a) |->
            IF rejected /\ a[n] \notin Failures THEN "blocked" ELSE Receipted[a[n]]]

\* All provider calls of one variant.  A rotation answer that arrives on
\* another day than its window is rejected.
Fetch(c, a) ==
    LET late == Mode = "session_day_rotation" /\ run[c].day # today
        statuses == StatusesOf(a, late)
    IN  /\ run[c].stage = "fetch"
        /\ run' = [run EXCEPT ![c].stage = "save",
              ![c].calls = [n \in 1..Len(a) |->
                               [batch |-> run[c].sel[n], status |-> statuses[n]]]]
        /\ UNCHANGED <<setup, today, universe, entry, order, crashes>>

\* Fault: the receipt keeps its first place in the history.
TouchedOnce(key) ==
    IF \E n \in 1..Len(order) : order[n] = key THEN order ELSE Append(order, key)

Touched(key) ==
    LET old == {n \in 1..Len(order) : order[n] = key}
    IN  Append(IF old = {} THEN order ELSE RemoveAt(order, CHOOSE n \in old : TRUE), key)

\* A row transaction may be rolled back; its call then gets a failed receipt
\* (storage_failed) and the next call is saved.
Recorded(status) ==
    IF status \in {"success", "stale"} THEN {status, "failed"} ELSE {status}

\* The receipt of the next call, in a transaction of its own; after the last
\* call the next variant is fetched, or the run is over.
Save(c, status) ==
    LET call == Head(run[c].calls)
        key == <<call.batch, Variants[run[c].variant]>>
    IN  /\ run[c].stage = "save"
        /\ status \in Recorded(call.status)
        /\ entry' = [entry EXCEPT ![key] = status]
        /\ order' = Touched(key)
        /\ run' = [run EXCEPT ![c] =
              IF Len(@.calls) > 1 THEN [@ EXCEPT !.calls = Tail(run[c].calls)]
              ELSE IF @.variant < Len(Variants)
              THEN [@ EXCEPT !.stage = "fetch", !.variant = run[c].variant + 1,
                             !.calls = <<>>]
              ELSE Idle]
        /\ UNCHANGED <<setup, today, universe, crashes>>

\* The process dies; its committed receipts stay.
Crash(c) ==
    /\ crashes < setup.maxCrashes
    /\ run[c].stage # "idle"
    /\ crashes' = crashes + 1
    /\ run' = [run EXCEPT ![c] = Idle]
    /\ UNCHANGED <<setup, today, universe, entry, order>>

-----------------------------------------------------------------------------
(* The world.                                                              *)

NewDay ==
    /\ today < setup.maxDay
    /\ today' = today + 1
    /\ UNCHANGED <<setup, universe, entry, order, run, crashes>>

\* The fan-out source is collected again with other values.
NewUniverse ==
    /\ universe < Len(Count)
    /\ universe' = universe + 1
    /\ UNCHANGED <<setup, today, entry, order, run, crashes>>

Next ==
    \/ \E c \in Collectors :
          \/ Plan(c) \/ Select(c) \/ Crash(c)
          \/ \E status \in Statuses : Save(c, status)
          \/ \E a \in Answered(run[c].sel) : Fetch(c, a)
    \/ NewDay
    \/ NewUniverse

Spec == Init /\ [][Next]_vars

Work(c) ==
    \/ Plan(c) \/ Select(c)
    \/ \E status \in Statuses : Save(c, status)
    \/ \E a \in Answered(run[c].sel) : Fetch(c, a)

\* The timer keeps starting runs and a started run goes on.
FairSpec == Spec /\ \A c \in Collectors : WF_vars(Work(c))

FetchWell(c) ==
    \E a \in Answered(run[c].sel) :
        /\ ~FailedVariant(a)
        /\ Fetch(c, a)

SaveWell(c) ==
    /\ run[c].stage = "save"
    /\ Save(c, Head(run[c].calls).status)

Undisturbed ==
    \/ \E c \in Collectors : Plan(c) \/ Select(c) \/ FetchWell(c) \/ SaveWell(c)
    \/ NewDay \/ NewUniverse

-----------------------------------------------------------------------------
(* Properties.                                                             *)

\* Two programs judge a window by the same receipts.  Where the planner
\* retires it, the collector would choose nothing; where the collector has
\* nothing left but the planner goes on planning, a batch is blocked or the
\* universe changed within the window.
PlannerMatchesSelector ==
    Mode = "complete_window" =>
        /\ Retired(today) => Selection(today, today) = <<>>
        /\ Selection(today, today) = <<>> /\ ~Retired(today) =>
              \/ \E b \in Window(today, universe) : BatchState(b) = "blocked"
              \/ \E b \in Batches : /\ Day(b) = today /\ Attempted(b)
                                    /\ b \notin Window(today, universe)

\* Outside complete_window every attempt goes to a batch nobody has waited longer
\* than: with one collector, variant and universe, and whatever fails, crashes
\* or changes the day, two attempts of a batch have an attempt of every other
\* candidate between them (provider_native_ingest.py:723-735).
OldestFirst ==
    (/\ Mode # "complete_window" /\ Len(Variants) = 1 /\ Len(Count) = 1
     /\ \A c, d \in Collectors : c = d)
    => \A c \in Collectors : run[c].stage = "save" =>
          \A a \in Candidates(run[c].day, today) :
              LastAttempt(Head(run[c].calls).batch) <= LastAttempt(a)

\* Planner and collector take the same from the receipts, and the collector
\* serves whoever waited longest.
ReceiptsAreFollowed == PlannerMatchesSelector /\ OldestFirst

AllBatches == UNION {BatchesOf(s) : s \in Setups}
AllKeys == AllBatches \X UNION {VariantsIn(s) : s \in Setups}
LastServed(b) == order # <<>> /\ order[Len(order)][1] = b

\* Claimed by docs/reports/2026-08-30-resumable-collection-contract.md:71:
\* under rotation "a persistently bad batch cannot pin every later code": each
\* batch and variant of the current window is attempted again and again.
EveryBatchServed ==
    \A k \in AllKeys :
        []<>(/\ Mode = "session_day_rotation"
             /\ k \in Keys /\ k[1] \in Window(today, universe)
             => order # <<>> /\ order[Len(order)] = k)

\* Continuation: the current day is served again and again, although an older
\* day with a bad batch never ends; and every unfinished batch of the oldest
\* unfinished day is attempted again and again.
LanesAlternate ==
    /\ []<>(Mode = "partition_continuation" =>
                order # <<>> /\ Day(order[Len(order)][1]) = today)
    /\ \A b \in AllBatches :
          []<>(/\ Mode = "partition_continuation" /\ Debt # {}
               /\ b \in Window(Min(Debt), universe) /\ BatchState(b) # "complete"
               => LastServed(b))

\* A provider that refuses nothing for good.
Patient ==
    \A i \in DOMAIN Answers : Answers[i] \subseteq {"rows", "empty", "failed"}

\* In complete_window mode, if no answer is refused for good, the source stays
\* as it is, and crashes, failures and rolled back rows come to an end, then
\* the last day's window is finished and retired.
WindowRetires ==
    <>[][Undisturbed]_vars =>
        <>[](Mode = "complete_window" /\ Patient /\ Len(Count) = 1 => Retired(today))

\* The days take turns, no batch starves, and a window whose batches can be
\* finished is.
BatchesAdvance == LanesAlternate /\ EveryBatchServed /\ WindowRetires
=============================================================================
