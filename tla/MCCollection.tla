---------------------------- MODULE MCCollection ----------------------------
(***************************************************************************)
(* Small instances of ScheduleRun and of ResumableFanout, one or the other *)
(* by the first choice: the schedule sees a plan as a number of calls, the *)
(* fan-out sees runs that follow one another.                               *)
(*                                                                         *)
(* Schedule: the service and a manual run, two Tushare plans and a          *)
(* Firecrawl plan. All of them together exceed the account and the provider *)
(* limit, and a single retry of the first plan reaches the API limit. The  *)
(* first asks for a window that is covered once it is answered; the others *)
(* are asked again and again, and leave the first the rest of a run.       *)
(*                                                                         *)
(* Fan-out: at least one binding per progress mode, with two or three       *)
(* batches, two per run, and batches whose answers go wrong.               *)
(***************************************************************************)
EXTENDS ResumableFanout

CONSTANTS
    Processes, Unit, Plans, Provider, Api, Calls, Repeats, Attempts,
    AccountLimit, ProviderLimit, ApiLimit, OnDemand, MaxCrashes, Nobody

VARIABLES
    part,          \* "schedule" or "fanout"
    lock, proc, outcome, made, selector, batch, ran,
    deaths         \* the crashes of ScheduleRun

schedule == <<lock, proc, outcome, made, selector, batch, ran, deaths>>

Schedule == INSTANCE ScheduleRun WITH crashes <- deaths, Batches <- OnDemand

ASSUME InstanceAssumption == Schedule!ScheduleConstants

Providers == <<"tushare", "tushare", "firecrawl">>
Apis == <<"rt_min", "anns_d", "scrape_page">>
CallCounts == <<2, 1, 1>>
Refreshed == <<FALSE, TRUE, TRUE>>
ThreePlans == 1..3

-----------------------------------------------------------------------------
Mixed == <<{"rows", "failed"}, {"empty", "stale"}, {"unfit", "flood"}>>
OneBad == <<{"rows", "refused"}, {"failed"}, {"empty", "stale"}>>
PassingFailures == <<{"rows", "failed"}, {"empty"}, {"rows"}>>

\* The source changes within the window.
ChangingSource ==
    [mode |-> "complete_window", variants |-> <<"vA">>, count |-> <<3, 2>>,
     answers |-> Mixed, perRun |-> 2, maxAge |-> 0, maxDay |-> 1, maxCrashes |-> 1]

\* Two request variants; nothing crashes.
TwoVariants ==
    [mode |-> "complete_window", variants |-> <<"vA", "vB">>, count |-> <<3>>,
     answers |-> Mixed, perRun |-> 2, maxAge |-> 0, maxDay |-> 1, maxCrashes |-> 0]

\* Two request variants, failures that pass and a crash.
PatientProvider ==
    [mode |-> "complete_window", variants |-> <<"vA", "vB">>, count |-> <<3>>,
     answers |-> PassingFailures, perRun |-> 2, maxAge |-> 0, maxDay |-> 1,
     maxCrashes |-> 1]

Rotation ==
    [mode |-> "session_day_rotation", variants |-> <<"vA">>, count |-> <<3>>,
     answers |-> OneBad, perRun |-> 2, maxAge |-> 0, maxDay |-> 2, maxCrashes |-> 1]

Continuation ==
    [mode |-> "partition_continuation", variants |-> <<"vA">>, count |-> <<2>>,
     answers |-> OneBad, perRun |-> 1, maxAge |-> 1, maxDay |-> 3, maxCrashes |-> 1]

MCSetups == {ChangingSource, TwoVariants, PatientProvider, Rotation, Continuation}
-----------------------------------------------------------------------------
(* The part that was not chosen stays in one of its initial states. *)

EitherInit ==
    /\ part \in {"schedule", "fanout"}
    /\ Init /\ Schedule!Init
    /\ part = "schedule" => setup = ChangingSource

EitherNext ==
    \/ part = "fanout" /\ Next /\ UNCHANGED <<part, schedule>>
    \/ part = "schedule" /\ Schedule!Next /\ UNCHANGED <<part, vars>>

all == <<part, vars, schedule>>

(* The fairness of the part that was chosen. *)
EitherSpec ==
    /\ EitherInit /\ [][EitherNext]_all
    /\ \A c \in Collectors : WF_vars(part = "fanout" /\ Work(c))
    /\ \A p \in Processes :
          /\ WF_schedule(part = "schedule" /\ Schedule!Work(p))
          /\ SF_schedule(part = "schedule" /\ Schedule!Lock(p) /\ lock = Nobody)
    /\ \A n \in Plans : WF_schedule(part = "schedule" /\ Schedule!Elapse(n))
    /\ <>[][part = "schedule" => Schedule!Undisturbed]_schedule

(* The schedule alone. *)
ScheduleSpec == EitherInit /\ part = "schedule" /\ [][EitherNext]_all

-----------------------------------------------------------------------------
(* The properties of ScheduleRun, under their names. *)

WorkIsBounded == Schedule!WorkIsBounded
EveryPlanCollected == part = "schedule" => Schedule!EveryPlanCollected
ExhaustionIsNoFailure == Schedule!ExhaustionIsNoFailure
=============================================================================
