------------------------------- MODULE MCStores -------------------------------
(***************************************************************************)
(* Instances of TransportGate, IngestStore and AuthorityLock, one of them   *)
(* by the first choice: the gate the collectors reach the provider through, *)
(* and the two SQLite stores of the Python services. What a run commits is  *)
(* its own; who may write and read at all, the lock says.                   *)
(*                                                                         *)
(* Of the store: an append-only dataset with one row key, two variants, two *)
(* registry releases (the second drops a variant and moves row metadata),   *)
(* and the answers that matter: a retry that succeeds, a page that exhausts *)
(* the budget, and an empty one. (Validation may reject any of them, which  *)
(* leaves failed receipts.)                                                 *)
(*                                                                         *)
(* Of the gate: three threads, two leases, one request start per window of  *)
(* two ticks, two nodes. Two calls meet at the edge of the window, one of   *)
(* them waits there and starts after it, and they report on the nodes in    *)
(* any order, while the third waits for a lease.                            *)
(***************************************************************************)
EXTENDS IngestStore, TLC

CONSTANTS k1, p, vA, vB, n1, n2

RowsCall(req, batch) == [req |-> req, kind |-> "rows", batch |-> batch]
EmptyCall(req) == [req |-> req, kind |-> "empty", batch |-> NoRows]
FailedCall(req) == [req |-> req, kind |-> "failed", batch |-> NoRows]
Plain(calls) == [calls |-> calls, overflow |-> FALSE]
Overflowing(calls) == [calls |-> calls, overflow |-> TRUE]

\* The second release keeps only the first variant and moves the metadata.
TwoReleases == 1..2
ShrinkingVariants == <<<<vA, vB>>, <<vA>>>>
SameSchema == <<1, 1>>
MovedMeta == <<1, 2>>

MCSnapshots == {<<n1, n2>>, <<n2>>}

AppendBatch == [k \in {k1} |-> k]
AppendFetches ==
    {Plain(<<FailedCall(1), RowsCall(1, AppendBatch)>>),
     Overflowing(<<RowsCall(1, AppendBatch)>>),
     Plain(<<EmptyCall(1)>>)}

CONSTANTS Writers, Readers, Dirs, Files, Dbs, InitialDir, InitialDb, NoFile,
    MaxAttempts, MaxCommits

CONSTANTS Threads, Nodes, Snapshots, NoNode, MaxConcurrency, MaxRequests,
    Window, Timeout, Cooldown

VARIABLES
    part,   \* "ingest", "authority" or "gate"
    pc, remaining, wake, started, nodesLeft, inFlight, starts, recent,
    lkg, cooldown,                                       \* of TransportGate
    dir, entry, store, version, usedDirs, usedFiles, proc, acked   \* of AuthorityLock

gate == <<pc, remaining, wake, started, nodesLeft, inFlight, starts, recent,
          lkg, cooldown>>
authority == <<dir, entry, store, version, usedDirs, usedFiles, proc, acked>>

Gate == INSTANCE TransportGate
Lock == INSTANCE AuthorityLock

ASSUME LockInstanceAssumption == Lock!LockAssumption
ASSUME GateAssumption == Gate!GateConstants

(* The variables of the lock when it was not chosen. *)
NoLock ==
    /\ dir = part /\ entry = part /\ store = part /\ version = part
    /\ usedDirs = part /\ usedFiles = part /\ proc = part /\ acked = part

EitherInit ==
    /\ part \in {"ingest", "authority", "gate"}
    /\ Init /\ Gate!Init
    /\ IF part = "authority" THEN Lock!Init ELSE NoLock

EitherNext ==
    \/ part = "ingest" /\ Next /\ UNCHANGED <<part, authority, gate>>
    \/ part = "authority" /\ Lock!Next /\ UNCHANGED <<part, vars, gate>>
    \/ part = "gate" /\ Gate!Next /\ UNCHANGED <<part, vars, authority>>

EitherSpec == EitherInit /\ [][EitherNext]_<<part, vars, authority, gate>>

(* The properties of AuthorityLock and of TransportGate, under their names. *)
AuthorityIsKept == part = "authority" => Lock!AuthorityIsKept
LeaseConservation == Gate!LeaseConservation
StartsAreSound == Gate!StartsAreSound
NoReplay == Gate!NoReplay

(* Two of the threads have the names of the runs: only one part is in use.  *)
Symmetry == Permutations(Runs) \cup Permutations(Files)
=============================================================================
