----------------------------- MODULE Idempotency -----------------------------
(***************************************************************************)
(* internal/idempotency: Begin acquires a key or replays the answer it     *)
(* already has, Complete stores the answer.  Their callers are tests only; *)
(* the protocol is theirs: Begin in a transaction of its own, the          *)
(* operation once the key is acquired, Complete in another transaction.    *)
(*                                                                         *)
(* A key stands for actor, method, operation and request key, which the    *)
(* table is UNIQUE in, a payload for its hash and a body for the response. *)
(* The expires_at of a record is written and never read: it is left out.   *)
(***************************************************************************)
EXTENDS Requests, Naturals

CONSTANTS Keys, Payloads, Bodies

VARIABLES
    executed,   \* history: how often the operation of a key was entered
    outcome     \* history: the payload and the body of the one that returned

vars == <<storeVars, requestVars, executed, outcome>>

Unused == [status |-> "unused"]
Running(r) == [status |-> "running", payload |-> r.payload]
Completed(r, body) == [status |-> "completed", payload |-> r.payload, body |-> body]

Requested == [key: Keys, payload: Payloads]
Replies == [body: Bodies]
Outcome == [payload: Payloads, body: Bodies]
NoOutcome == [payload |-> "none"]

\* db: the rows of idempotency_keys, by key.
Records ==
    {Unused} \cup [status: {"running"}, payload: Payloads]
             \cup [status: {"completed"}, payload: Payloads, body: Bodies]
Databases == [Keys -> Records]

Points == {"idle", "begin", "acquired", "running", "executed", "written"}

-----------------------------------------------------------------------------
\* Begin

Receive(p, r) ==
    /\ Take(p, r, "begin")
    /\ UNCHANGED <<storeVars, seen, executed, outcome>>

\* The INSERT of the record, the first write of the transaction.
Acquire(p) ==
    /\ pc[p] = "begin"
    /\ db[req[p].key] = Unused
    /\ Write(p, [db EXCEPT ![req[p].key] = Running(req[p])])
    /\ Goto(p, "acquired")
    /\ UNCHANGED <<executed, outcome>>

\* The caller commits, and goes on if it hears so.
CommitAcquired(p) ==
    /\ pc[p] = "acquired"
    /\ Commit(p)
    /\ Goto(p, "running") \/ Answer(p, "failed")
    /\ UNCHANGED <<executed, outcome>>

\* Whatever refuses the INSERT, the unique key or the other writer, the SELECT
\* that follows it decides.
NotInserted(p) == db[req[p].key] # Unused \/ Busy(p)

Replayable(p) ==
    /\ db[req[p].key].status = "completed"
    /\ db[req[p].key].payload = req[p].payload

Replay(p) ==
    /\ pc[p] = "begin"
    /\ NotInserted(p)
    /\ Replayable(p)
    /\ GiveUp(p, "ok")
    /\ UNCHANGED <<executed, outcome>>

\* No row, another payload, or still running: a conflict.
Conflict(p) ==
    /\ pc[p] = "begin"
    /\ NotInserted(p)
    /\ ~Replayable(p)
    /\ GiveUp(p, "refused")
    /\ UNCHANGED <<executed, outcome>>

-----------------------------------------------------------------------------
\* The operation of the caller, and Complete

Execute(p, body) ==
    /\ pc[p] = "running"
    /\ executed' = [executed EXCEPT ![req[p].key] = @ + 1]
    /\ outcome' = [outcome EXCEPT ![req[p].key] =
                        [payload |-> req[p].payload, body |-> body]]
    /\ Saw(p, [body |-> body], "executed")
    /\ UNCHANGED storeVars

\* The UPDATE, for a record that is running.
Complete(p) ==
    /\ pc[p] = "executed"
    /\ db[req[p].key].status = "running"
    /\ Write(p, [db EXCEPT ![req[p].key] = Completed(@, seen[p].body)])
    /\ Goto(p, "written")
    /\ UNCHANGED <<executed, outcome>>

CompleteConflict(p) ==
    /\ pc[p] = "executed"
    /\ db[req[p].key].status # "running"
    /\ GiveUp(p, "failed")
    /\ UNCHANGED <<executed, outcome>>

TxCommit(p) ==
    /\ \E answered \in {"ok", "failed"} : CommitAndAnswer(p, answered)
    /\ UNCHANGED <<executed, outcome>>

\* Any statement, the operation or the caller may fail: nothing in the package
\* takes a running record back.
Fail(p) ==
    /\ GiveUpAnywhere(p)
    /\ UNCHANGED <<executed, outcome>>

Crash == Die /\ UNCHANGED <<executed, outcome>>

-----------------------------------------------------------------------------
Init ==
    /\ InitStore([k \in Keys |-> Unused])
    /\ InitRequests
    /\ executed = [k \in Keys |-> 0]
    /\ outcome = [k \in Keys |-> NoOutcome]

Step(p) ==
    \/ \E r \in Requested : Receive(p, r)
    \/ Acquire(p) \/ CommitAcquired(p) \/ Replay(p) \/ Conflict(p)
    \/ \E body \in Bodies : Execute(p, body)
    \/ Complete(p) \/ CompleteConflict(p) \/ TxCommit(p)
    \/ Fail(p)

Next == (\E p \in Procs : Step(p)) \/ Crash

Spec == Init /\ [][Next]_vars

-----------------------------------------------------------------------------
\* Properties

\* However often a request is sent, at once or after its answer was lost, its
\* operation is entered once at most.
ExecutedOnce == \A k \in Keys : executed[k] <= 1

\* A record that is completed holds what the operation returned, for the
\* payload it was asked with: that is what every retry is told.
ReplaysTheOutcome ==
    \A k \in Keys : db[k].status = "completed" =>
        [payload |-> db[k].payload, body |-> db[k].body] = outcome[k]

\* Whoever is answered was asked the question that was executed: with "ok" goes
\* the body of its own payload, replayed or not.
AnsweredAsAsked ==
    [][\A p \in Procs : pc[p] # "idle" /\ answer'[p] = "ok" =>
            outcome[req[p].key].payload = req[p].payload]_vars

\* A record goes from unused to running to completed and never back, whoever
\* fails or dies in between: it keeps the payload it was acquired with, and is
\* completed only after the operation has returned, with what it returned.
RecordsGoForward ==
    [][\A k \in Keys : db'[k] # db[k] =>
        \/ /\ db[k] = Unused /\ executed[k] = 0
           /\ \E r \in Requested : r.key = k /\ db'[k] = Running(r)
        \/ /\ db[k].status = "running" /\ executed[k] = 1
           /\ db[k].payload = outcome[k].payload
           /\ db'[k] = Completed(db[k], outcome[k].body)]_vars

-----------------------------------------------------------------------------
\* What makes ExecutedOnce and ReplaysTheOutcome inductive

\* Requests that hold a key: no two hold the same one.
Holds(p) == pc[p] \in {"running", "executed", "written"}

OneHolder == \A p, q \in Procs : Holds(p) /\ Holds(q) /\ req[p].key = req[q].key => p = q

\* A holder's record is running, with its payload, until its commit.
HolderRuns ==
    \A p \in Procs : Holds(p) =>
        /\ req[p] \in Requested
        /\ db[req[p].key] = Running(req[p])
        /\ pc[p] = "running" => executed[req[p].key] = 0
        /\ pc[p] # "running" =>
            /\ executed[req[p].key] = 1
            /\ seen[p] \in Replies
            /\ outcome[req[p].key] = [payload |-> req[p].payload, body |-> seen[p].body]

\* What the writer has staged is its own row and nothing else.
StagedIsOwn ==
    /\ writer = NoProc => staged = db
    /\ \A p \in Procs :
        /\ writer = p <=> pc[p] \in {"acquired", "written"}
        /\ pc[p] = "acquired" =>
            /\ req[p] \in Requested
            /\ db[req[p].key] = Unused
            /\ staged = [db EXCEPT ![req[p].key] = Running(req[p])]
        /\ pc[p] = "written" =>
            staged = [db EXCEPT ![req[p].key] = Completed(req[p], seen[p].body)]

\* An unused key was never executed, and no key more than once.
Counted ==
    \A k \in Keys :
        /\ executed[k] \in {0, 1}
        /\ db[k] = Unused => executed[k] = 0

WellTyped ==
    /\ db \in Databases
    /\ writer \in Procs \cup {NoProc}
    /\ snapshot \in [Procs -> SnapshotStates]
    /\ pc \in [Procs -> Points]
    /\ req \in [Procs -> Requested \cup {NoRequest}]
    /\ seen \in [Procs -> Replies \cup {NoRow}]
    /\ executed \in [Keys -> Nat]
    /\ outcome \in [Keys -> Outcome \cup {NoOutcome}]
    /\ answer \in [Procs -> Outcomes]
    /\ \A p \in Procs : pc[p] # "idle" => req[p] \in Requested /\ answer[p] = "none"

Inductive ==
    /\ WellTyped
    /\ OneHolder
    /\ HolderRuns
    /\ StagedIsOwn
    /\ Counted
    /\ ReplaysTheOutcome
=============================================================================
