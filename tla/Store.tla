-------------------------------- MODULE Store -------------------------------
(***************************************************************************)
(* internal/storage/sqlite: one SQLite file in WAL mode, used through      *)
(* Store.InTx (db.go) by requests that run on connections of their own.    *)
(* The module gives the operators that the transactions of the component   *)
(* modules are built from; what a database value holds is theirs.          *)
(*                                                                         *)
(* BeginTx(ctx, nil) is a deferred transaction.  Its first SELECT takes a  *)
(* snapshot; its first write makes it the one writer of the file.  A       *)
(* transaction that has read and then writes is refused at once when       *)
(* somebody else writes, or has committed since its snapshot; one whose    *)
(* first statement is a write waits for the writer instead, up to the      *)
(* busy_timeout of Open.  Readers never see what is not committed.         *)
(***************************************************************************)
CONSTANTS
    Procs,      \* the requests being served, each with its connection
    NoProc      \* nobody holds the write lock

ASSUME ProcAssumption == NoProc \notin Procs

VARIABLES
    db,         \* what is committed, and survives a crash
    staged,     \* what the writer has made of it so far
    writer,     \* the process whose transaction holds the write lock
    snapshot    \* of each process's transaction: none, fresh or stale

storeVars == <<db, staged, writer, snapshot>>

SnapshotStates == {"none", "fresh", "stale"}

InitStore(contents) ==
    /\ db = contents
    /\ staged = contents
    /\ writer = NoProc
    /\ snapshot = [p \in Procs |-> "none"]

\* The snapshots of the others once somebody has committed.
Outdated == [q \in Procs |-> IF snapshot[q] = "fresh" THEN "stale" ELSE snapshot[q]]

\* The first SELECT of a transaction that has not written.
TakeSnapshot(p) ==
    /\ snapshot[p] = "none"
    /\ snapshot' = [snapshot EXCEPT ![p] = "fresh"]
    /\ UNCHANGED <<db, staged, writer>>

\* A write is let in / is refused with SQLITE_BUSY or SQLITE_BUSY_SNAPSHOT.
MayWrite(p) == writer = p \/ (writer = NoProc /\ snapshot[p] # "stale")
Busy(p)     == writer # p /\ (writer # NoProc \/ snapshot[p] = "stale")

\* One or more statements of p's transaction that leave `contents` behind.
Write(p, contents) ==
    /\ MayWrite(p)
    /\ writer' = p
    /\ staged' = contents
    /\ snapshot' = [snapshot EXCEPT ![p] = "fresh"]
    /\ UNCHANGED db

\* InTx: tx.Commit() when fn returned nil, tx.Rollback() when it did not.
Commit(p) ==
    /\ writer = p
    /\ db' = staged
    /\ writer' = NoProc
    /\ snapshot' = [Outdated EXCEPT ![p] = "none"]
    /\ UNCHANGED staged

\* Mutant: what was staged survives the rollback.
RollbackKeeps(p) ==
    /\ writer' = IF writer = p THEN NoProc ELSE writer
    /\ snapshot' = [snapshot EXCEPT ![p] = "none"]
    /\ UNCHANGED <<db, staged>>

Rollback(p) ==
    /\ staged' = IF writer = p THEN db ELSE staged
    /\ writer' = IF writer = p THEN NoProc ELSE writer
    /\ snapshot' = [snapshot EXCEPT ![p] = "none"]
    /\ UNCHANGED db

\* A single statement outside any transaction.
AutoCommit(contents) ==
    /\ writer = NoProc
    /\ db' = contents
    /\ staged' = contents
    /\ snapshot' = Outdated
    /\ UNCHANGED writer

\* The process dies: SQLite discards what was not committed.
LoseTransactions ==
    /\ staged' = db
    /\ writer' = NoProc
    /\ snapshot' = [p \in Procs |-> "none"]
    /\ UNCHANGED db

=============================================================================
