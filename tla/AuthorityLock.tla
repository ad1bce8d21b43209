--------------------------- MODULE AuthorityLock ---------------------------
(***************************************************************************)
(* The cooperative lock of the SQLite authority, and the two protocols that *)
(* run under it: the write transaction and the verified read snapshot.      *)
(*                                                                         *)
(* A process flocks the database's directory and then a sentinel file in it *)
(* (shared for readers, exclusive for writers), re-checking by inode that   *)
(* the path still names what it locked.  The operating system's part is     *)
(* explicit: an operator may remove or replace the sentinel and replace the *)
(* whole directory, with the database file moved or copied, at any moment.  *)
(* Locks are held by open descriptors, so who holds what is derived from    *)
(* the step a process is in.  Inodes are never reused while they matter: a  *)
(* replacement is always a fresh inode.                                     *)
(***************************************************************************)
EXTENDS Naturals, FiniteSets

CONSTANTS
    Writers, Readers,
    Dirs,          \* directory inodes
    Files,         \* sentinel inodes
    Dbs,           \* database inodes
    InitialDir, InitialDb,
    NoFile,
    MaxAttempts,   \* _SNAPSHOT_READER_MAX_ATTEMPTS
    MaxCommits     \* bound: writers stop calling at this version

Procs == Writers \union Readers

LockAssumption ==
    /\ Writers \intersect Readers = {}
    /\ NoFile \notin Files
    /\ InitialDir \in Dirs /\ InitialDb \in Dbs
    /\ MaxAttempts \in Nat \ {0}
    /\ MaxCommits \in Nat

VARIABLES
    dir,       \* the directory the configured path names
    entry,     \* the sentinel of each directory
    store,     \* the database file of each directory
    version,   \* commits in each database file
    usedDirs, usedFiles,
    proc,      \* the state of each process
    acked      \* the version of the last write reported as successful

vars == <<dir, entry, store, version, usedDirs, usedFiles, proc, acked>>
world == <<dir, entry, store, version, usedDirs, usedFiles, acked>>

Acquiring == {"flockDir", "recheckDir", "statFile", "openFile", "validate",
              "flockFile", "checkFile"}
Writing == {"begin", "writing", "checked", "committed"}
Reading == {"primary", "verify", "body", "read", "secondBody"}
Steps == {"idle"} \union Acquiring \union Writing \union Reading

ProcStates ==
    [step : Steps, dir : Dirs, file : Files \union {NoFile},
     pre : Files \union {NoFile}, db : Dbs, seen : Nat, atStart : Nat,
     attempts : Nat, thrown : BOOLEAN]

\* A process that holds nothing and remembers nothing.
Idle == [step |-> "idle", dir |-> InitialDir, file |-> NoFile, pre |-> NoFile,
         db |-> InitialDb, seen |-> 0, atStart |-> 0, attempts |-> 0,
         thrown |-> FALSE]

TypeOK ==
    /\ dir \in usedDirs /\ usedDirs \subseteq Dirs
    /\ entry \in [Dirs -> Files \union {NoFile}]
    /\ store \in [Dirs -> Dbs]
    /\ version \in [Dbs -> Nat]
    /\ usedFiles \subseteq Files
    /\ proc \in [Procs -> ProcStates]
    /\ acked \in Nat

Init ==
    /\ dir = InitialDir
    /\ entry = [d \in Dirs |-> NoFile]
    /\ store = [d \in Dirs |-> InitialDb]
    /\ version = [b \in Dbs |-> 0]
    /\ usedDirs = {dir} /\ usedFiles = {}
    /\ proc = [p \in Procs |-> Idle]
    /\ acked = 0

At(p) == proc[p].step
Go(p, step) == proc' = [proc EXCEPT ![p].step = step]

-----------------------------------------------------------------------------
(* flock(2): descriptors, not paths, are locked.                           *)

PastDirLock == (Steps \ {"idle", "flockDir"})
PastFileLock == {"checkFile"} \union Writing \union Reading

HoldsDir(p, d) == At(p) \in PastDirLock /\ proc[p].dir = d
HoldsFile(p, f) == At(p) \in PastFileLock /\ proc[p].file = f

Compatible(p, q) == p \in Readers /\ q \in Readers

DirFree(p) == \A q \in Procs \ {p} : HoldsDir(q, proc[p].dir) => Compatible(p, q)
FileFree(p) == \A q \in Procs \ {p} : HoldsFile(q, proc[p].file) => Compatible(p, q)

\* SqliteAuthorityLease.validate: the paths still name the locked inodes.
Bound(p) == dir = proc[p].dir /\ entry[dir] = proc[p].file

\* Closing the descriptors releases both locks and rolls an open transaction back.
Close(p) == proc' = [proc EXCEPT ![p] = Idle]

\* A failure ends the call; a reader's lock errors are raised as a projection
\* error at once, without another attempt.
Fail(p) == Close(p) /\ UNCHANGED world

-----------------------------------------------------------------------------
(* sqlite_authority_lock: acquisition.                                     *)

\* A caller starts: lstat and open the directory.
Begin(p) ==
    /\ At(p) = "idle"
    /\ p \in Writers => version[store[dir]] < MaxCommits
    /\ proc' = [proc EXCEPT ![p].step = "flockDir", ![p].dir = dir,
                            ![p].attempts = 1,
                            ![p].atStart = acked]
    /\ UNCHANGED world

\* Fault: only the sentinel is locked.
FlockDirSkipped(p) ==
    /\ At(p) = "flockDir"
    /\ Go(p, "recheckDir")
    /\ UNCHANGED world

FlockDir(p) ==
    /\ At(p) = "flockDir"
    /\ DirFree(p)
    /\ Go(p, "recheckDir")
    /\ UNCHANGED world

RecheckDir(p) ==
    /\ At(p) = "recheckDir"
    /\ IF dir = proc[p].dir THEN Go(p, "statFile") /\ UNCHANGED world ELSE Fail(p)

\* Readers never create the sentinel: a missing one fails closed.
StatFile(p) ==
    /\ At(p) = "statFile"
    /\ IF entry[dir] = NoFile /\ p \in Readers THEN Fail(p)
       ELSE /\ proc' = [proc EXCEPT ![p].step = "openFile", ![p].pre = entry[dir]]
            /\ UNCHANGED world

OpenFile(p) ==
    /\ At(p) = "openFile"
    /\ \/ /\ entry[dir] # NoFile
          /\ proc' = [proc EXCEPT ![p].step = "validate", ![p].file = entry[dir]]
          /\ UNCHANGED world
       \/ /\ entry[dir] = NoFile /\ p \in Readers
          /\ Fail(p)
       \/ /\ entry[dir] = NoFile /\ p \in Writers
          /\ \E f \in Files \ usedFiles :
                /\ entry' = [entry EXCEPT ![dir] = f]
                /\ usedFiles' = usedFiles \union {f}
                /\ proc' = [proc EXCEPT ![p].step = "validate", ![p].file = f]
          /\ UNCHANGED <<dir, store, version, usedDirs, acked>>

Validate(p) ==
    /\ At(p) = "validate"
    /\ IF Bound(p) /\ proc[p].pre \in {NoFile, proc[p].file}
       THEN Go(p, "flockFile") /\ UNCHANGED world
       ELSE Fail(p)

FlockFile(p) ==
    /\ At(p) = "flockFile"
    /\ FileFree(p)
    /\ Go(p, "checkFile")
    /\ UNCHANGED world

\* The caller's body runs only while the path names the locked sentinel.
CheckFile(p) ==
    /\ At(p) = "checkFile"
    /\ IF entry[dir] = proc[p].file
       THEN Go(p, IF p \in Writers THEN "begin" ELSE "primary") /\ UNCHANGED world
       ELSE Fail(p)

\* _acquire_flock's deadline, a failed system call, an interrupt.
Abort(p) ==
    /\ At(p) # "idle"
    /\ Fail(p)

-----------------------------------------------------------------------------
(* The write transaction: ingest_provider_native_rows, write_terminal_receipt. *)

\* SQLite's own write lock on a database file.
InTransaction(p) == At(p) \in {"writing", "checked"}

\* Fault: the transaction begins deferred, without the write lock.
BeginDeferred(p) ==
    /\ At(p) = "begin"
    /\ proc' = [proc EXCEPT ![p].step = "writing", ![p].db = store[dir],
                            ![p].seen = version[store[dir]]]
    /\ UNCHANGED world

\* Open the database the path names and BEGIN IMMEDIATE; the rows to change
\* are read inside the transaction.
BeginImmediate(p) ==
    /\ At(p) = "begin"
    /\ ~\E q \in Procs \ {p} : InTransaction(q) /\ proc[q].db = store[dir]
    /\ proc' = [proc EXCEPT ![p].step = "writing", ![p].db = store[dir],
                            ![p].seen = version[store[dir]]]
    /\ UNCHANGED world

\* The last checks before commit: the database binding and the lease.
PreCommit(p) ==
    /\ At(p) = "writing"
    /\ IF store[dir] = proc[p].db /\ Bound(p)
       THEN Go(p, "checked") /\ UNCHANGED world
       ELSE Fail(p)

Commit(p) ==
    /\ At(p) = "checked"
    /\ version' = [version EXCEPT ![proc[p].db] = proc[p].seen + 1]
    /\ Go(p, "committed")
    /\ UNCHANGED <<dir, entry, store, usedDirs, usedFiles, acked>>

\* Fault: the lease is not validated when the lock is left.
ExitWriteUnchecked(p) ==
    /\ At(p) = "committed"
    /\ Close(p)
    /\ acked' = proc[p].seen + 1
    /\ UNCHANGED <<dir, entry, store, version, usedDirs, usedFiles>>

\* Leaving the lock validates the lease once more: a commit whose lock domain
\* was replaced meanwhile is reported as a failure.
ExitWrite(p) ==
    /\ At(p) = "committed"
    /\ IF Bound(p)
       THEN /\ Close(p)
            /\ acked' = proc[p].seen + 1
            /\ UNCHANGED <<dir, entry, store, version, usedDirs, usedFiles>>
       ELSE Fail(p)

-----------------------------------------------------------------------------
(* The read snapshot: open_verified_read_model_snapshot.                   *)

\* Everything is released and the lock is taken anew.
TryAgain(p) ==
    [Idle EXCEPT !.step = "flockDir", !.dir = dir, !.atStart = proc[p].atStart,
                 !.attempts = proc[p].attempts + 1, !.thrown = proc[p].thrown]

\* A projection error before the body: another attempt, up to MaxAttempts; the
\* last error is raised.
Retry(p) ==
    IF proc[p].attempts < MaxAttempts
    THEN proc' = [proc EXCEPT ![p] = TryAgain(p)]
    ELSE Close(p)

\* Open the first connection and take its epoch evidence.
OpenPrimary(p) ==
    /\ At(p) = "primary"
    /\ \/ proc' = [proc EXCEPT ![p].step = "verify", ![p].db = store[dir],
                               ![p].seen = version[store[dir]]]
       \/ Retry(p)
    /\ UNCHANGED world

\* A second connection to the same binding must see the same epoch.
Verify(p) ==
    /\ At(p) = "verify"
    /\ \/ /\ store[dir] = proc[p].db /\ version[store[dir]] = proc[p].seen
          /\ Go(p, IF proc[p].thrown THEN "secondBody" ELSE "body")
       \/ Retry(p)
    /\ UNCHANGED world

\* The caller's body ends normally, or raises a projection error: the loop
\* catches that too and runs on to a second yield.
Body(p) ==
    /\ At(p) = "body"
    /\ \/ Go(p, "read")
       \/ /\ proc[p].attempts < MaxAttempts
          /\ proc' = [proc EXCEPT ![p] = [TryAgain(p) EXCEPT !.thrown = TRUE]]
       \/ /\ proc[p].attempts = MaxAttempts
          /\ Close(p)
    /\ UNCHANGED world

\* Rows are returned only if the lease is still valid when the lock is left.
Returns(p) == At(p) = "read" /\ Bound(p)

\* A second yield is an error of its own for the caller (RuntimeError).
ExitRead(p) ==
    /\ At(p) \in {"read", "secondBody"}
    /\ Close(p)
    /\ UNCHANGED world

-----------------------------------------------------------------------------
(* The operator, who follows no lock.                                      *)

\* The sentinel is removed, or replaced by a new file.
ReplaceSentinel ==
    /\ entry[dir] # NoFile
    /\ \/ /\ entry' = [entry EXCEPT ![dir] = NoFile]
          /\ UNCHANGED usedFiles
       \/ \E f \in Files \ usedFiles :
             /\ entry' = [entry EXCEPT ![dir] = f]
             /\ usedFiles' = usedFiles \union {f}
    /\ UNCHANGED <<dir, store, version, usedDirs, proc, acked>>

\* The directory is replaced by a new one, which gets the database file itself
\* or a copy of it.
ReplaceDirectory ==
    \E d \in Dirs \ usedDirs :
        /\ dir' = d
        /\ usedDirs' = usedDirs \union {d}
        /\ \/ store' = [store EXCEPT ![d] = store[dir]] /\ UNCHANGED version
           \/ \E b \in Dbs \ {store[e] : e \in usedDirs} :
                 /\ store' = [store EXCEPT ![d] = b]
                 /\ version' = [version EXCEPT ![b] = version[store[dir]]]
        /\ UNCHANGED <<entry, usedFiles, proc, acked>>

Acquire(p) ==
    \/ FlockDir(p) \/ RecheckDir(p) \/ StatFile(p) \/ OpenFile(p)
    \/ Validate(p) \/ FlockFile(p) \/ CheckFile(p)

Write(p) == BeginImmediate(p) \/ PreCommit(p) \/ Commit(p) \/ ExitWrite(p)
Read(p) == OpenPrimary(p) \/ Verify(p) \/ Body(p) \/ ExitRead(p)

Next ==
    \/ \E p \in Procs : Begin(p) \/ Acquire(p) \/ Write(p) \/ Read(p) \/ Abort(p)
    \/ ReplaceSentinel
    \/ ReplaceDirectory

Spec == Init /\ [][Next]_vars

-----------------------------------------------------------------------------
(* Properties.                                                             *)

InBody(p) == At(p) \in Writing \union Reading

\* No second lock domain: while a writer is in its body nobody else is, under
\* the same directory, even if the sentinel was removed or replaced.
DomainExclusive ==
    \A p, q \in Procs :
        /\ p # q /\ InBody(p) /\ InBody(q) /\ proc[p].dir = proc[q].dir
        => Compatible(p, q)

\* A write that is about to commit is based on the last committed state, also
\* when a directory replacement gave the same database file a second lock
\* domain: no committed write is overwritten.
NoLostUpdate ==
    \A p \in Writers : At(p) = "checked" => version[proc[p].db] = proc[p].seen

\* Writers take turns: nobody is with a writer in its domain, and none writes
\* over what another committed since it read.
WritesAreSerial == DomainExclusive /\ NoLostUpdate

\* A write reported as successful is in the database the path names, although
\* the directory may be replaced between any two steps of the writer.
AckedDurable == version[store[dir]] >= acked

\* A reader that returns rows saw every write that was reported as successful
\* before it was called.
ReadsSeeAcked ==
    \A p \in Readers : Returns(p) => proc[p].seen >= proc[p].atStart

\* What was acknowledged stays: a later writer is the only one to replace it,
\* and no reader called afterwards misses it.
AckedWritesLast == AckedDurable /\ ReadsSeeAcked

\* The database the path names is written by one at a time and keeps what was
\* acknowledged.
AuthorityIsKept == WritesAreSerial /\ AckedWritesLast

\* Claimed by storage/receipt_projection.py:4695-4698: a projection error is
\* raised as one once the attempts are exhausted, never as another error.
ProjectionErrorsSurface == \A p \in Readers : At(p) # "secondBody"
=============================================================================
