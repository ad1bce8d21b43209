--------------------------- MODULE CatalogExecutor ---------------------------
(***************************************************************************)
(* The catalog worker pool of the API server: request threads hand catalog  *)
(* jobs to at most Workers processes, one thread builds the pool at server  *)
(* start, another shuts it down.  There is one condition (guarding the      *)
(* admission counter and the flags) and one pool lock, held while worker    *)
(* processes are started or reaped.  A pool that failed is never replaced.  *)
(*                                                                         *)
(* A job is one catalog page; what it answers is left out.                  *)
(***************************************************************************)
EXTENDS Naturals, FiniteSets, FiniteSetsExt

CONSTANTS
    Callers,   \* request threads
    Workers,   \* TRADINGDATAS_CATALOG_WORKERS (1 or 2)
    Starter,   \* the thread that initialises the executor
    Stopper,   \* the thread that shuts it down
    Nobody

(* What is assumed of them (MCThreads states it of its instance). *)
ExecutorConstants ==
    /\ Workers \in Nat \ {0} /\ IsFiniteSet(Callers)
    /\ Starter # Stopper /\ Starter \notin Callers /\ Stopper \notin Callers
    /\ Nobody \notin Callers \union {Starter, Stopper}

VARIABLES
    pc,         \* where each thread is
    job,        \* the future of each caller
    active,     \* _active
    closed,     \* _closed
    broken,     \* _broken
    bound,      \* _catalog and _workers are set
    pool,       \* _pool is published
    processes,  \* the worker processes of the pool
    poolLock    \* the holder of _pool_lock

vars == <<pc, job, active, closed, broken, bound, pool, processes, poolLock>>

Actors == Callers \union {Starter, Stopper}
CallerStages == {"idle", "admitted", "waiting", "held", "failed", "reaping", "leaving"}
StarterStages == {"idle", "bound", "starting", "done"}
StopperStages == {"idle", "checking", "waiting", "reaping", "done"}

TypeOK ==
    /\ pc \in [Actors -> CallerStages \union StarterStages \union StopperStages]
    /\ \A c \in Callers : pc[c] \in CallerStages
    /\ pc[Starter] \in StarterStages /\ pc[Stopper] \in StopperStages
    /\ job \in [Callers -> {"none", "running", "done", "broken"}]
    /\ active \in 0..Cardinality(Callers)
    /\ closed \in BOOLEAN /\ broken \in BOOLEAN /\ bound \in BOOLEAN /\ pool \in BOOLEAN
    /\ processes \in {"absent", "starting", "alive", "broken", "gone"}
    /\ poolLock \in Actors \union {Nobody}

Init ==
    /\ pc = [t \in Actors |-> "idle"]
    /\ job = [c \in Callers |-> "none"]
    /\ active = 0
    /\ closed = FALSE /\ broken = FALSE /\ bound = FALSE /\ pool = FALSE
    /\ processes = "absent"
    /\ poolLock = Nobody

Goto(t, stage) == pc' = [pc EXCEPT ![t] = stage]
Running == {c \in Callers : job[c] = "running"}

-----------------------------------------------------------------------------
(* Building the pool: initialize and _get_pool.                            *)

\* _bind, under the condition.
Bind ==
    /\ pc[Starter] = "idle"
    /\ IF closed \/ broken
       THEN Goto(Starter, "done") /\ UNCHANGED bound
       ELSE Goto(Starter, "bound") /\ bound' = TRUE
    /\ UNCHANGED <<job, active, closed, broken, pool, processes, poolLock>>

\* Fault: closed and broken are not looked at again under the pool lock.
StartUnchecked ==
    /\ pc[Starter] = "bound" /\ poolLock = Nobody
    /\ Goto(Starter, "starting") /\ poolLock' = Starter /\ processes' = "starting"
    /\ UNCHANGED <<job, active, closed, broken, bound, pool>>

\* The flags are read again once the pool lock is held.
Start ==
    /\ pc[Starter] = "bound" /\ poolLock = Nobody
    /\ IF closed \/ broken
       THEN Goto(Starter, "done") /\ UNCHANGED <<poolLock, processes>>
       ELSE Goto(Starter, "starting") /\ poolLock' = Starter /\ processes' = "starting"
    /\ UNCHANGED <<job, active, closed, broken, bound, pool>>

\* All workers answered the probe: the pool is published.
Started ==
    /\ pc[Starter] = "starting"
    /\ Goto(Starter, "done") /\ poolLock' = Nobody
    /\ processes' = "alive" /\ pool' = TRUE
    /\ UNCHANGED <<job, active, closed, broken, bound>>

\* Fault: the processes of a pool that never started are left behind.
StartFailsUnreaped ==
    /\ pc[Starter] = "starting"
    /\ Goto(Starter, "done") /\ poolLock' = Nobody /\ broken' = TRUE
    /\ UNCHANGED <<job, active, closed, bound, pool, processes>>

\* A worker did not come up: its siblings are reaped before the lock is given up.
StartFails ==
    /\ pc[Starter] = "starting"
    /\ Goto(Starter, "done") /\ poolLock' = Nobody
    /\ processes' = "gone" /\ broken' = TRUE
    /\ UNCHANGED <<job, active, closed, bound, pool>>

-----------------------------------------------------------------------------
(* A request thread: execute.                                              *)

\* Admission; a call that finds the executor full, closed, broken or not there
\* is refused at once (503), which changes nothing.
Admit(c) ==
    /\ pc[c] = "idle" /\ ~closed /\ ~broken /\ bound /\ pool
    /\ active < Workers
    /\ active' = active + 1
    /\ Goto(c, "admitted")
    /\ UNCHANGED <<job, closed, broken, bound, pool, processes, poolLock>>

\* pool.submit; a job that cannot be packed is refused before.
Submit(c) ==
    /\ pc[c] = "admitted"
    /\ \/ /\ processes = "alive"
          /\ Goto(c, "waiting") /\ job' = [job EXCEPT ![c] = "running"]
       \/ processes # "alive" /\ Goto(c, "failed") /\ UNCHANGED job
       \/ Goto(c, "leaving") /\ UNCHANGED job
    /\ UNCHANGED <<active, closed, broken, bound, pool, processes, poolLock>>

\* The worker answers; or it dies and takes every job with it.
Answer(c) ==
    /\ job[c] = "running" /\ processes = "alive"
    /\ job' = [job EXCEPT ![c] = "done"]
    /\ UNCHANGED <<pc, active, closed, broken, bound, pool, processes, poolLock>>

WorkerDies ==
    /\ processes = "alive"
    /\ processes' = "broken"
    /\ job' = [c \in Callers |-> IF c \in Running THEN "broken" ELSE job[c]]
    /\ UNCHANGED <<pc, active, closed, broken, bound, pool, poolLock>>

\* The executor's manager thread reaps what is left of a broken pool.
Reap ==
    /\ processes = "broken"
    /\ processes' = "gone"
    /\ UNCHANGED <<pc, job, active, closed, broken, bound, pool, poolLock>>

Receive(c) ==
    /\ pc[c] \in {"waiting", "held"} /\ job[c] \in {"done", "broken"}
    /\ Goto(c, IF pc[c] = "waiting" /\ job[c] = "broken" THEN "failed" ELSE "leaving")
    /\ UNCHANGED <<job, active, closed, broken, bound, pool, processes, poolLock>>

\* Fault: an interrupted caller gives its admission back at once.
InterruptLeaves(c) ==
    /\ pc[c] = "waiting"
    /\ Goto(c, "leaving")
    /\ UNCHANGED <<job, active, closed, broken, bound, pool, processes, poolLock>>

\* The caller is interrupted; it keeps its admission until the job is done.
Interrupt(c) ==
    /\ pc[c] = "waiting"
    /\ Goto(c, "held")
    /\ UNCHANGED <<job, active, closed, broken, bound, pool, processes, poolLock>>

\* _fail_pool: the flag first, then the pool lock.
Fail(c) ==
    /\ pc[c] = "failed"
    /\ broken' = TRUE /\ Goto(c, "reaping")
    /\ UNCHANGED <<job, active, closed, bound, pool, processes, poolLock>>

\* The first caller to get the lock waits in pool.shutdown for the processes;
\* later ones find the pool gone.
TakeLock(t) ==
    /\ pc[t] = "reaping" /\ poolLock = Nobody
    /\ poolLock' = t
    /\ UNCHANGED <<pc, job, active, closed, broken, bound, pool, processes>>

\* pool.shutdown(wait=True): an idle pool ends, a busy one ends its jobs first.
ShutDown(t) ==
    /\ pc[t] = "reaping" /\ poolLock = t
    /\ pool => processes = "gone" \/ (processes = "alive" /\ Running = {})
    /\ processes' = IF pool THEN "gone" ELSE processes
    /\ pool' = FALSE /\ poolLock' = Nobody
    /\ Goto(t, IF t = Stopper THEN "done" ELSE "leaving")
    /\ UNCHANGED <<job, active, closed, broken, bound>>

\* Fault: the last caller does not notify the thread that shuts down.
LeaveSilently(c) ==
    /\ pc[c] = "leaving"
    /\ active' = active - 1
    /\ job' = [job EXCEPT ![c] = IF @ = "running" THEN @ ELSE "none"]
    /\ Goto(c, "idle")
    /\ UNCHANGED <<closed, broken, bound, pool, processes, poolLock>>

\* The admission is given back and the stopper notified.
Leave(c) ==
    /\ pc[c] = "leaving"
    /\ active' = active - 1
    /\ job' = [job EXCEPT ![c] = IF @ = "running" THEN @ ELSE "none"]
    /\ pc' = [pc EXCEPT ![c] = "idle",
                        ![Stopper] = IF @ = "waiting" THEN "checking" ELSE @]
    /\ UNCHANGED <<closed, broken, bound, pool, processes, poolLock>>

-----------------------------------------------------------------------------
(* shutdown.                                                               *)

Close ==
    /\ pc[Stopper] = "idle"
    /\ closed' = TRUE /\ Goto(Stopper, "checking")
    /\ UNCHANGED <<job, active, broken, bound, pool, processes, poolLock>>

Check ==
    /\ pc[Stopper] = "checking"
    /\ Goto(Stopper, IF active > 0 THEN "waiting" ELSE "reaping")
    /\ UNCHANGED <<job, active, closed, broken, bound, pool, processes, poolLock>>

Step(c) ==
    \/ Submit(c) \/ Answer(c) \/ Receive(c) \/ Fail(c) \/ TakeLock(c) \/ ShutDown(c)
    \/ Leave(c)

Next ==
    \/ Bind \/ Start \/ Started \/ StartFails \/ WorkerDies \/ Reap
    \/ \E c \in Callers : Admit(c) \/ Interrupt(c) \/ Step(c)
    \/ Close \/ Check \/ TakeLock(Stopper) \/ ShutDown(Stopper)

Spec == Init /\ [][Next]_vars

\* Actors run, locks are handed on, jobs end and dead workers are reaped.
FairSpec ==
    /\ Spec
    /\ WF_vars(Bind \/ Start \/ Started \/ StartFails) /\ WF_vars(Reap)
    /\ \A c \in Callers : WF_vars(Step(c)) /\ SF_vars(TakeLock(c))
    /\ WF_vars(Check \/ ShutDown(Stopper)) /\ SF_vars(TakeLock(Stopper))

-----------------------------------------------------------------------------
(* Properties.                                                             *)

Admitted == {c \in Callers : pc[c] # "idle"}

\* Every job in a worker is covered by an admission that is still counted,
\* also when its caller was interrupted or another job broke the pool; so a
\* pool of Workers processes never has more than Workers jobs.
AdmissionCoversWork ==
    /\ active = Cardinality(Admitted)
    /\ active <= Workers
    /\ Running \subseteq Admitted

\* Once shutdown returned there is no caller inside, no worker process and no
\* thread that could still start one.
ShutdownIsFinal ==
    pc[Stopper] = "done" =>
        active = 0 /\ ~pool /\ processes \in {"absent", "gone"} /\ poolLock = Nobody

\* Worker processes never outlive their owner: the thread that is starting them
\* or the pool object that shutdown and _fail_pool go through.
NoOrphanProcess ==
    /\ processes = "starting" => poolLock = Starter
    /\ processes \in {"alive", "broken"} => pool

\* A worker process always has an owner, and none is left by a shutdown.
CleanShutdown == ShutdownIsFinal /\ NoOrphanProcess

\* Every job and every process has an owner that still counts, whatever calls
\* are interrupted, workers die and the shutdown overtakes.
JobsHaveOwners == AdmissionCoversWork /\ CleanShutdown

\* Every admitted call returns, whatever workers break and callers are
\* interrupted, and so does the shutdown that waits for them.
EveryCallReturns ==
    /\ \A c \in Callers : []<>(pc[c] = "idle")
    /\ []<>(closed => pc[Stopper] = "done")
=============================================================================
