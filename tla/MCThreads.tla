------------------------------ MODULE MCThreads ------------------------------
(***************************************************************************)
(* Instances of TransportGate and of CatalogExecutor, one or the other by   *)
(* the first choice: the two places where threads of the Python services    *)
(* wait for each other. What must eventually happen is part of both, so     *)
(* there is no symmetry.                                                    *)
(*                                                                         *)
(* Gate: three threads, two leases and one request start per window, so     *)
(* that a lease is returned while one thread sleeps for a lease and another *)
(* for the window. Who waits for whom does not depend on the addresses, and *)
(* there is one; MCStores has more of the gate. Executor: two workers and   *)
(* three request threads, one more than may be admitted.                    *)
(***************************************************************************)
EXTENDS TransportGate

CONSTANTS a, Callers, Workers, Starter, Stopper, Nobody

VARIABLES
    part,   \* "gate" or "executor"
    place, job, active, closed, broken, bound, pool, processes, poolLock   \* of CatalogExecutor

executor == <<place, job, active, closed, broken, bound, pool, processes, poolLock>>

Exec == INSTANCE CatalogExecutor WITH pc <- place

ASSUME ExecutorAssumption == Exec!ExecutorConstants

OneAddress == {<<a>>}

(* The part that was not chosen stays in its initial state. *)
EitherInit == part \in {"gate", "executor"} /\ Init /\ Exec!Init

(* The server is gone: it does nothing more. *)
Stopped == place[Stopper] = "done" /\ \A c \in Callers : place[c] = "idle"

EitherNext ==
    \/ part = "gate" /\ Next /\ UNCHANGED <<part, executor>>
    \/ part = "executor" /\ Exec!Next /\ UNCHANGED <<part, vars>>
    \/ part = "executor" /\ Stopped /\ UNCHANGED <<part, executor, vars>>

OfExecutor(A) == part = "executor" /\ A

(* The fairness of the part that was chosen: time passes and threads run;   *)
(* actors run, locks are handed on, jobs end and dead workers are reaped.   *)
EitherSpec ==
    /\ EitherInit /\ [][EitherNext]_<<part, vars, executor>>
    /\ WF_vars(part = "gate" /\ Tick)
    /\ \A t \in Threads : WF_vars(part = "gate" /\ Step(t))
    /\ WF_executor(OfExecutor(Exec!Bind \/ Exec!Start \/ Exec!Started \/ Exec!StartFails))
    /\ WF_executor(OfExecutor(Exec!Reap))
    /\ \A c \in Callers : /\ WF_executor(OfExecutor(Exec!Step(c)))
                          /\ SF_executor(OfExecutor(Exec!TakeLock(c)))
    /\ WF_executor(OfExecutor(Exec!Check \/ Exec!ShutDown(Stopper)))
    /\ SF_executor(OfExecutor(Exec!TakeLock(Stopper)))

(* The properties of CatalogExecutor, under their names. *)
JobsHaveOwners == Exec!JobsHaveOwners

(* The calls of both end. *)
EveryCallReturns == EveryCallEnds /\ Exec!EveryCallReturns
=============================================================================
