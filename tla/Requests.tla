------------------------------ MODULE Requests ------------------------------
(***************************************************************************)
(* What the operations of the services have in common: a request is a      *)
(* process that goes through its reads, its transaction (Store.InTx) and   *)
(* its answer one step at a time.  The component modules say what a        *)
(* request asks, which points it passes and what its statements do.        *)
(***************************************************************************)
EXTENDS Store

VARIABLES
    pc,         \* where each request stands in the code
    req,        \* what it was asked
    seen,       \* the row it read and is going to update
    answer      \* the outcome of the process's last request

requestVars == <<pc, req, seen, answer>>

NoRequest == [op |-> "none"]
NoRow == [version |-> 0]
Outcomes == {"none", "ok", "refused", "version_conflict", "failed"}

InitRequests ==
    /\ pc = [p \in Procs |-> "idle"]
    /\ req = [p \in Procs |-> NoRequest]
    /\ seen = [p \in Procs |-> NoRow]
    /\ answer = [p \in Procs |-> "none"]

Take(p, request, point) ==
    /\ pc[p] = "idle"
    /\ pc' = [pc EXCEPT ![p] = point]
    /\ req' = [req EXCEPT ![p] = request]
    /\ answer' = [answer EXCEPT ![p] = "none"]

Goto(p, point) ==
    /\ pc' = [pc EXCEPT ![p] = point]
    /\ UNCHANGED <<req, seen, answer>>

\* The rows were read that the request will update if they have not changed.
Saw(p, row, point) ==
    /\ pc' = [pc EXCEPT ![p] = point]
    /\ seen' = [seen EXCEPT ![p] = row]
    /\ UNCHANGED <<req, answer>>

Answer(p, outcome) ==
    /\ pc' = [pc EXCEPT ![p] = "idle"]
    /\ req' = [req EXCEPT ![p] = NoRequest]
    /\ seen' = [seen EXCEPT ![p] = NoRow]
    /\ answer' = [answer EXCEPT ![p] = outcome]

\* The function that InTx runs returns an error.
GiveUp(p, outcome) ==
    /\ Rollback(p)
    /\ Answer(p, outcome)

\* SQLITE_BUSY on the first write of a transaction.
GiveUpBusy(p, firstWrites) ==
    /\ pc[p] \in firstWrites
    /\ Busy(p)
    /\ GiveUp(p, "failed")

\* Any statement may fail, the audit event's included, or the caller goes away.
GiveUpAnywhere(p) ==
    /\ pc[p] # "idle"
    /\ GiveUp(p, "failed")

\* The commit is durable; its answer may never reach the caller.
CommitAndAnswer(p, outcome) ==
    /\ pc[p] = "written"
    /\ outcome \in {"ok", "failed"}
    /\ Commit(p)
    /\ Answer(p, outcome)

\* The server dies, and every request with it.
Die ==
    /\ LoseTransactions
    /\ pc' = [p \in Procs |-> "idle"]
    /\ req' = [p \in Procs |-> NoRequest]
    /\ seen' = [p \in Procs |-> NoRow]
    /\ answer' = [p \in Procs |-> "none"]

Toggle(set, x) == IF x \in set THEN set \ {x} ELSE set \cup {x}

=============================================================================
