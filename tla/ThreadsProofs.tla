---------------------------- MODULE ThreadsProofs ----------------------------
(***************************************************************************)
(* Proofs about the catalog executor, for any callers and any number of     *)
(* workers. (Those about the transport gate are in StoresProofs, with the   *)
(* instance that checks them.)                                              *)
(***************************************************************************)
EXTENDS MCThreads, FiniteSetTheorems, TLAPS

\* An instance has operators of its own for what it extends.
LEMMA ExecCardinality ==
    ASSUME NEW S
    PROVE  Exec!Cardinality(S) = Cardinality(S) /\ Exec!IsFiniteSet(S) = IsFiniteSet(S)
<1>1. Exec!Cardinality(S) = Cardinality(S)
  BY Zenon DEF Cardinality, Exec!Cardinality
<1>2. Exec!IsFiniteSet(S) = IsFiniteSet(S)
  BY Zenon DEF IsFiniteSet, Exec!IsFiniteSet
<1> QED BY <1>1, <1>2

ExecTypes ==
    /\ place \in [Exec!Actors -> Exec!CallerStages \union Exec!StarterStages
                                                    \union Exec!StopperStages]
    /\ job \in [Callers -> {"none", "running", "done", "broken"}]
    /\ active \in Nat

\* The counter of admissions counts the callers inside.
Counted == active = Cardinality(Exec!Admitted) /\ active <= Workers

\* A job that a worker has is one its caller waits for.
JobsAwaited == \A c \in Callers : job[c] = "running" => place[c] \in {"waiting", "held"}

\* Who the processes of the pool belong to.
PoolOwned ==
    /\ processes \in {"absent", "starting", "alive", "broken", "gone"}
    /\ (processes = "starting") <=> (place[Starter] = "starting")
    /\ (poolLock = Starter) <=> (place[Starter] = "starting")
    /\ processes \in {"alive", "broken"} => pool

\* A shutdown lets nobody in, and goes on when nobody is inside.
StopsClean ==
    /\ place[Stopper] # "idle" => closed
    /\ place[Stopper] \in {"reaping", "done"} => active = 0
    /\ place[Stopper] = "done" =>
          ~pool /\ processes \in {"absent", "gone"} /\ poolLock = Nobody

ExecInv == ExecTypes /\ Counted /\ JobsAwaited /\ PoolOwned /\ StopsClean

\* Whoever starts and stops the executor is no caller.
LEMMA ActorsApart ==
    /\ Starter # Stopper /\ Starter \notin Callers /\ Stopper \notin Callers
    /\ Nobody # Starter
    /\ IsFiniteSet(Callers) /\ Workers \in Nat
    /\ Starter \in Exec!Actors /\ Stopper \in Exec!Actors /\ Callers \subseteq Exec!Actors
BY ExecutorAssumption, ExecCardinality DEF Exec!ExecutorConstants, Exec!Actors

\* The callers inside change by the one that comes or goes.
LEMMA AdmittedKept ==
    ASSUME \A c \in Callers : place'[c] = "idle" <=> place[c] = "idle"
    PROVE  Exec!Admitted' = Exec!Admitted
BY DEF Exec!Admitted

\* The admitted callers can be counted.
LEMMA AdmittedFinite ==
    /\ IsFiniteSet(Exec!Admitted)
    /\ Cardinality(Exec!Admitted) \in Nat
    /\ Cardinality(Exec!Admitted) = 0 => \A c \in Callers : place[c] = "idle"
<1>1. Exec!Admitted \in SUBSET Callers
  BY DEF Exec!Admitted
<1>2. IsFiniteSet(Exec!Admitted) /\ Cardinality(Exec!Admitted) \in Nat
  BY <1>1, ActorsApart, FS_Subset, FS_CardinalityType
<1>3. Cardinality(Exec!Admitted) = 0 => Exec!Admitted = {}
  BY <1>2, FS_EmptySet
<1> QED BY <1>2, <1>3 DEF Exec!Admitted

\* A caller comes in.
LEMMA ExecAdmit ==
    ASSUME ExecInv, NEW c \in Callers, Exec!Admit(c)
    PROVE  ExecInv'
<1>1. place' = [place EXCEPT ![c] = "admitted"] /\ place[c] = "idle"
  BY DEF Exec!Admit, Exec!Goto
<1>2. place'[Stopper] = place[Stopper] /\ place'[Starter] = place[Starter]
      /\ place'[c] = "admitted" /\ \A d \in Callers : d # c => place'[d] = place[d]
  BY <1>1, ActorsApart DEF ExecInv, ExecTypes
<1>3. ExecTypes'
  BY <1>1, ActorsApart DEF ExecInv, ExecTypes, Exec!Admit, Exec!CallerStages
<1>4. Exec!Admitted' = Exec!Admitted \union {c} /\ c \notin Exec!Admitted
  BY <1>1, <1>2 DEF Exec!Admitted
<1>5. Counted'
  <2>1. Cardinality(Exec!Admitted') = Cardinality(Exec!Admitted) + 1
    BY <1>4, AdmittedFinite, FS_AddElement
  <2>2. active' = active + 1 /\ active < Workers /\ active = Cardinality(Exec!Admitted)
    BY DEF Exec!Admit, ExecInv, Counted
  <2> QED BY <2>1, <2>2, ActorsApart DEF Counted, ExecInv, ExecTypes
<1>6. JobsAwaited'
  BY <1>1, <1>2 DEF ExecInv, JobsAwaited, Exec!Admit
<1>7. PoolOwned'
  BY <1>2 DEF ExecInv, PoolOwned, Exec!Admit
<1>8. StopsClean'
  BY <1>2 DEF ExecInv, StopsClean, Exec!Admit
<1> QED BY <1>3, <1>5, <1>6, <1>7, <1>8 DEF ExecInv

\* A caller goes.
LEMMA ExecLeave ==
    ASSUME ExecInv, NEW c \in Callers, Exec!Leave(c)
    PROVE  ExecInv'
<1>1. place[c] = "leaving" /\ c \in Exec!Admitted /\ job[c] # "running"
  BY DEF Exec!Leave, ExecInv, JobsAwaited, Exec!Admitted
<1>2. /\ place'[Starter] = place[Starter] /\ place'[c] = "idle"
      /\ \A d \in Callers : d # c => place'[d] = place[d]
      /\ place'[Stopper] = IF place[Stopper] = "waiting" THEN "checking" ELSE place[Stopper]
  BY ActorsApart DEF ExecInv, ExecTypes, Exec!Leave
<1>3. Exec!Admitted' = Exec!Admitted \ {c}
  BY <1>2 DEF Exec!Admitted
<1>4. active # 0 /\ active \in Nat /\ active' = active - 1
      /\ Cardinality(Exec!Admitted') = Cardinality(Exec!Admitted) - 1
  BY <1>1, <1>3, AdmittedFinite, FS_RemoveElement DEF ExecInv, ExecTypes, Counted, Exec!Leave
<1>5. ExecTypes'
  <2>1. place' \in [Exec!Actors -> Exec!CallerStages \union Exec!StarterStages
                                                     \union Exec!StopperStages]
    BY ActorsApart DEF ExecInv, ExecTypes, Exec!Leave, Exec!CallerStages, Exec!StopperStages
  <2>2. job' \in [Callers -> {"none", "running", "done", "broken"}]
    BY DEF ExecInv, ExecTypes, Exec!Leave
  <2> QED BY <1>4, <2>1, <2>2 DEF ExecTypes
<1>6. Counted'
  BY <1>4, ActorsApart DEF ExecInv, Counted
<1>7. JobsAwaited'
  BY <1>1, <1>2 DEF ExecInv, ExecTypes, JobsAwaited, Exec!Leave
<1>8. PoolOwned'
  BY <1>2 DEF ExecInv, PoolOwned, Exec!Leave
<1>9. StopsClean'
  BY <1>2, <1>4 DEF ExecInv, StopsClean, Exec!Leave
<1> QED BY <1>5, <1>6, <1>7, <1>8, <1>9 DEF ExecInv

\* A caller inside goes on, and stays inside.
LEMMA ExecInside ==
    ASSUME ExecInv, NEW c \in Callers,
           \/ Exec!Submit(c) \/ Exec!Answer(c) \/ Exec!Receive(c) \/ Exec!Interrupt(c)
           \/ Exec!Fail(c)
    PROVE  ExecInv'
<1>1. \E stage \in Exec!CallerStages \ {"idle"} :
          \/ place' = [place EXCEPT ![c] = stage] /\ place[c] # "idle"
          \/ place' = place
  BY DEF Exec!Submit, Exec!Answer, Exec!Receive, Exec!Interrupt, Exec!Fail, Exec!Goto,
         Exec!CallerStages
<1>2. /\ place'[Stopper] = place[Stopper] /\ place'[Starter] = place[Starter]
      /\ \A d \in Callers : d # c => place'[d] = place[d]
      /\ \A d \in Callers : place'[d] = "idle" <=> place[d] = "idle"
  BY <1>1, ActorsApart DEF ExecInv, ExecTypes
<1>3. active' = active /\ UNCHANGED <<closed, pool, processes, poolLock>>
  BY DEF Exec!Submit, Exec!Answer, Exec!Receive, Exec!Interrupt, Exec!Fail
<1>4. ExecTypes'
  <2>1. job' \in [Callers -> {"none", "running", "done", "broken"}]
    BY DEF ExecInv, ExecTypes, Exec!Submit, Exec!Answer, Exec!Receive, Exec!Interrupt, Exec!Fail
  <2> QED BY <1>1, <1>3, <2>1 DEF ExecInv, ExecTypes
<1>5. Counted'
  BY <1>2, <1>3, AdmittedKept DEF ExecInv, Counted
<1>6. JobsAwaited'
  <2>1. CASE Exec!Submit(c)
    BY <1>2, <2>1, ActorsApart DEF ExecInv, ExecTypes, JobsAwaited, Exec!Submit, Exec!Goto
  <2>2. CASE Exec!Answer(c)
    BY <2>2 DEF ExecInv, ExecTypes, JobsAwaited, Exec!Answer
  <2>3. CASE Exec!Receive(c)
    BY <1>2, <2>3 DEF ExecInv, JobsAwaited, Exec!Receive
  <2>4. CASE Exec!Interrupt(c)
    BY <1>2, <2>4, ActorsApart DEF ExecInv, ExecTypes, JobsAwaited, Exec!Interrupt, Exec!Goto
  <2>5. CASE Exec!Fail(c)
    BY <1>2, <2>5 DEF ExecInv, JobsAwaited, Exec!Fail
  <2> QED BY <2>1, <2>2, <2>3, <2>4, <2>5
<1>7. PoolOwned' /\ StopsClean'
  BY <1>2, <1>3 DEF ExecInv, PoolOwned, StopsClean
<1> QED BY <1>4, <1>5, <1>6, <1>7 DEF ExecInv

\* The pool is built, or is not.
LEMMA ExecBuild ==
    ASSUME ExecInv, Exec!Bind \/ Exec!Start \/ Exec!Started \/ Exec!StartFails
    PROVE  ExecInv'
<1>1. \E stage \in Exec!StarterStages : place' = [place EXCEPT ![Starter] = stage]
  BY DEF Exec!Bind, Exec!Start, Exec!Started, Exec!StartFails, Exec!Goto, Exec!StarterStages
<1>2. place'[Stopper] = place[Stopper] /\ \A d \in Callers : place'[d] = place[d]
  BY <1>1, ActorsApart DEF ExecInv, ExecTypes
<1>3. UNCHANGED <<job, active, closed>>
  BY DEF Exec!Bind, Exec!Start, Exec!Started, Exec!StartFails
<1>4. ExecTypes'
  BY <1>1, <1>3 DEF ExecInv, ExecTypes
<1>5. Counted'
  BY <1>2, <1>3, AdmittedKept DEF ExecInv, Counted
<1>6. JobsAwaited'
  BY <1>2, <1>3 DEF ExecInv, JobsAwaited
<1>7. PoolOwned'
  BY ActorsApart DEF ExecInv, ExecTypes, PoolOwned, Exec!Bind, Exec!Start, Exec!Started,
                     Exec!StartFails, Exec!Goto
<1>8. StopsClean'
  BY <1>2, <1>3 DEF ExecInv, PoolOwned, StopsClean, Exec!Bind, Exec!Start, Exec!Started,
                    Exec!StartFails
<1> QED BY <1>4, <1>5, <1>6, <1>7, <1>8 DEF ExecInv

\* A worker dies and the pool's manager reaps the others.
LEMMA ExecWorkers ==
    ASSUME ExecInv, Exec!WorkerDies \/ Exec!Reap
    PROVE  ExecInv'
<1>1. UNCHANGED <<place, active, closed, pool, poolLock>>
  BY DEF Exec!WorkerDies, Exec!Reap
<1>2. ExecTypes'
  BY <1>1 DEF ExecInv, ExecTypes, Exec!WorkerDies, Exec!Reap
<1>3. Counted'
  BY <1>1, AdmittedKept DEF ExecInv, Counted
<1>4. JobsAwaited'
  BY <1>1 DEF ExecInv, ExecTypes, JobsAwaited, Exec!WorkerDies, Exec!Reap, Exec!Running
<1>5. PoolOwned' /\ StopsClean'
  BY <1>1 DEF ExecInv, PoolOwned, StopsClean, Exec!WorkerDies, Exec!Reap
<1> QED BY <1>2, <1>3, <1>4, <1>5 DEF ExecInv

\* The shutdown is called, and waits until the last caller has left.
LEMMA ExecStop ==
    ASSUME ExecInv, Exec!Close \/ Exec!Check
    PROVE  ExecInv'
<1>1. \E stage \in Exec!StopperStages : place' = [place EXCEPT ![Stopper] = stage]
  BY DEF Exec!Close, Exec!Check, Exec!Goto, Exec!StopperStages
<1>2. place'[Starter] = place[Starter] /\ \A d \in Callers : place'[d] = place[d]
  BY <1>1, ActorsApart DEF ExecInv, ExecTypes
<1>3. UNCHANGED <<job, active, pool, processes, poolLock>>
  BY DEF Exec!Close, Exec!Check
<1>4. ExecTypes'
  BY <1>1, <1>3 DEF ExecInv, ExecTypes
<1>5. Counted'
  BY <1>2, <1>3, AdmittedKept DEF ExecInv, Counted
<1>6. JobsAwaited' /\ PoolOwned'
  BY <1>2, <1>3 DEF ExecInv, JobsAwaited, PoolOwned
<1>7. StopsClean'
  BY ActorsApart DEF ExecInv, ExecTypes, StopsClean, Exec!Close, Exec!Check, Exec!Goto
<1> QED BY <1>4, <1>5, <1>6, <1>7 DEF ExecInv

\* The pool lock: while the shutdown is over there is nobody left to take it.
LEMMA ExecLock ==
    ASSUME ExecInv, NEW t \in Callers \union {Stopper}, Exec!TakeLock(t)
    PROVE  ExecInv'
<1>1. UNCHANGED <<place, job, active, closed, pool, processes>>
      /\ poolLock' = t /\ poolLock = Nobody /\ place[t] = "reaping"
  BY DEF Exec!TakeLock
<1>2. ExecTypes' /\ JobsAwaited'
  BY <1>1 DEF ExecInv, ExecTypes, JobsAwaited
<1>3. Counted'
  BY <1>1, AdmittedKept DEF ExecInv, Counted
<1>4. PoolOwned'
  BY <1>1, ActorsApart DEF ExecInv, PoolOwned
<1>5. StopsClean'
  <2>1. place[Stopper] # "done"
    BY <1>1, AdmittedFinite DEF ExecInv, StopsClean, Counted
  <2> QED BY <1>1, <2>1 DEF ExecInv, StopsClean
<1> QED BY <1>2, <1>3, <1>4, <1>5 DEF ExecInv

\* The processes are reaped by whoever holds the lock.
LEMMA ExecShutDown ==
    ASSUME ExecInv, NEW t \in Callers \union {Stopper}, Exec!ShutDown(t)
    PROVE  ExecInv'
<1>1. /\ place[t] = "reaping" /\ poolLock = t /\ poolLock' = Nobody
      /\ place' = [place EXCEPT ![t] = IF t = Stopper THEN "done" ELSE "leaving"]
      /\ processes' = (IF pool THEN "gone" ELSE processes) /\ ~pool'
      /\ UNCHANGED <<job, active, closed>>
  BY DEF Exec!ShutDown, Exec!Goto
<1>2. place'[Starter] = place[Starter] /\ place[Starter] # "starting"
  BY <1>1, ActorsApart DEF ExecInv, ExecTypes, PoolOwned
<1>3. \A d \in Callers : (place'[d] = "idle" <=> place[d] = "idle")
                         /\ (place[d] \in {"waiting", "held"} => place'[d] = place[d])
  BY <1>1, ActorsApart DEF ExecInv, ExecTypes
<1>4. ExecTypes'
  BY <1>1 DEF ExecInv, ExecTypes, Exec!CallerStages, Exec!StopperStages
<1>5. Counted'
  BY <1>1, <1>3, AdmittedKept DEF ExecInv, Counted
<1>6. JobsAwaited'
  BY <1>1, <1>3 DEF ExecInv, JobsAwaited
<1>7. PoolOwned'
  BY <1>1, <1>2, ActorsApart DEF ExecInv, PoolOwned
<1>8. StopsClean'
  <2>1. processes' \in {"absent", "gone"}
    BY <1>1, <1>2 DEF ExecInv, PoolOwned
  <2>2. place[Stopper] # "idle" => closed
    BY DEF ExecInv, StopsClean
  <2>3. place'[Stopper] # "idle" => place[Stopper] # "idle"
    BY <1>1, ActorsApart DEF ExecInv, ExecTypes
  <2>4. place'[Stopper] \in {"reaping", "done"} => place[Stopper] \in {"reaping", "done"}
    BY <1>1, ActorsApart DEF ExecInv, ExecTypes
  <2> QED BY <1>1, <2>1, <2>2, <2>3, <2>4 DEF ExecInv, StopsClean
<1> QED BY <1>4, <1>5, <1>6, <1>7, <1>8 DEF ExecInv

\* Every step of the executor keeps its invariant.
LEMMA ExecStep ==
    ASSUME ExecInv, [Exec!Next]_executor
    PROVE  ExecInv'
<1>1. CASE Exec!Next
  <2>1. ASSUME NEW c \in Callers, Exec!Admit(c) \/ Exec!Interrupt(c) \/ Exec!Step(c)
        PROVE  ExecInv'
    BY <2>1, ExecAdmit, ExecLeave, ExecInside, ExecLock, ExecShutDown DEF Exec!Step
  <2> QED BY <1>1, <2>1, ExecBuild, ExecWorkers, ExecStop, ExecLock, ExecShutDown DEF Exec!Next
<1>2. CASE UNCHANGED executor
  <2>1. UNCHANGED <<place, job, active, closed, pool, processes, poolLock>>
    BY <1>2 DEF executor
  <2>2. Counted'
    BY <2>1, AdmittedKept DEF ExecInv, Counted
  <2> QED BY <2>1, <2>2 DEF ExecInv, ExecTypes, JobsAwaited, PoolOwned, StopsClean
<1> QED BY <1>1, <1>2

\* Every job a worker has is covered by an admission that is still counted, at
\* most as many as there are workers; no worker process is without an owner,
\* and none is left when the shutdown returns: for any number of callers and
\* workers, whatever calls are interrupted and workers die
\* (CatalogExecutor.execute, _fail_pool, shutdown).
THEOREM JobsOwned == EitherSpec => []JobsHaveOwners
<1>1. EitherInit => ExecInv
  <2> SUFFICES ASSUME Exec!Init PROVE ExecInv
    BY DEF EitherInit
  <2>1. \A t \in Exec!Actors : place[t] = "idle"
    BY DEF Exec!Init
  <2>2. Exec!Admitted = {}
    BY <2>1, ActorsApart DEF Exec!Admitted
  <2>3. Counted
    BY <2>2, FS_EmptySet, ActorsApart DEF Counted, Exec!Init
  <2>4. ExecTypes
    BY DEF ExecTypes, Exec!Init, Exec!CallerStages
  <2> QED BY <2>1, <2>3, <2>4, ActorsApart
        DEF ExecInv, JobsAwaited, PoolOwned, StopsClean, Exec!Init
<1>2. [EitherNext]_<<part, vars, executor>> => [Exec!Next]_executor
  BY DEF EitherNext
<1>3. ExecInv /\ [Exec!Next]_executor => ExecInv'
  BY ExecStep
<1>4. ExecInv => JobsHaveOwners
  <2> SUFFICES ASSUME ExecInv PROVE JobsHaveOwners
    OBVIOUS
  <2>1. Exec!AdmissionCoversWork
    BY ExecCardinality DEF ExecInv, Counted, JobsAwaited, Exec!AdmissionCoversWork,
                           Exec!Running, Exec!Admitted
  <2>2. Exec!CleanShutdown
    BY DEF ExecInv, PoolOwned, StopsClean, Exec!CleanShutdown, Exec!ShutdownIsFinal,
           Exec!NoOrphanProcess
  <2> QED BY <2>1, <2>2 DEF JobsHaveOwners, Exec!JobsHaveOwners
<1> QED BY <1>1, <1>2, <1>3, <1>4, PTL DEF EitherSpec
=============================================================================
