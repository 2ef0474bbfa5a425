-------------------------- MODULE IdempotencyProofs --------------------------
(***************************************************************************)
(* For every set of requests, keys, payloads and bodies: an operation      *)
(* under an idempotency key is entered once, and every answer is its own.  *)
(* One lemma per shape of step, then the invariant, then the theorems.     *)
(***************************************************************************)
EXTENDS Idempotency, TLAPS

\* The three kinds of record are told apart by their status.
LEMMA RecordKinds ==
    /\ Unused \in Records /\ Unused.status = "unused"
    /\ \A r \in Requested : Running(r) \in Records /\ Running(r).status = "running"
    /\ \A r \in Requested, b \in Bodies :
        /\ Completed(r, b) \in Records
        /\ Completed(r, b).status = "completed"
        /\ Completed(r, b).payload = r.payload
        /\ Completed(r, b).body = b
        /\ Completed(Running(r), b) = Completed(r, b)
BY DEF Records, Requested, Unused, Running, Completed

\* Nobody but the writer is in the write part of a transaction.
LEMMA OnlyTheWriter ==
    ASSUME Inductive, NEW p \in Procs, MayWrite(p), NEW q \in Procs \ {p}
    PROVE  writer # q /\ pc[q] \notin {"acquired", "written"}
BY ProcAssumption DEF Inductive, StagedIsOwn, MayWrite

-----------------------------------------------------------------------------
\* The steps

LEMMA ReceiveStep ==
    ASSUME Inductive, NEW p \in Procs, NEW r \in Requested, Receive(p, r)
    PROVE  Inductive'
<1> USE DEF Inductive, Receive, Take, storeVars
<1>1. /\ pc[p] = "idle" /\ pc'[p] = "begin" /\ req'[p] = r
      /\ \A q \in Procs \ {p} : pc'[q] = pc[q] /\ req'[q] = req[q]
      /\ UNCHANGED <<db, staged, writer, snapshot, seen, executed, outcome>>
  BY DEF WellTyped
<1>2. WellTyped'
  BY DEF WellTyped, Points, Outcomes
<1> HIDE DEF Receive, Take
<1>3. OneHolder' /\ HolderRuns'
  BY <1>1 DEF OneHolder, HolderRuns, Holds, Running
<1>4. StagedIsOwn'
  BY <1>1 DEF StagedIsOwn, Running, Completed
<1>5. Counted' /\ ReplaysTheOutcome'
  BY <1>1 DEF Counted, ReplaysTheOutcome
<1> QED BY <1>2, <1>3, <1>4, <1>5

\* Whatever ends a request without a commit leaves what is committed alone.
LEMMA GiveUpStep ==
    ASSUME Inductive, NEW p \in Procs, NEW how \in Outcomes, GiveUp(p, how),
           UNCHANGED <<executed, outcome>>
    PROVE  Inductive'
<1> USE DEF Inductive
<1>1. /\ pc'[p] = "idle"
      /\ \A q \in Procs \ {p} : pc'[q] = pc[q] /\ req'[q] = req[q] /\ seen'[q] = seen[q]
      /\ db' = db
      /\ staged' = IF writer = p THEN db ELSE staged
      /\ writer' = IF writer = p THEN NoProc ELSE writer
      /\ UNCHANGED <<executed, outcome>>
  BY DEF GiveUp, Rollback, Answer, WellTyped
<1>2. WellTyped'
  BY DEF WellTyped, GiveUp, Rollback, Answer, Points, SnapshotStates
<1>3. OneHolder' /\ HolderRuns'
  BY <1>1 DEF OneHolder, HolderRuns, Holds, Running
<1>4. StagedIsOwn'
  BY <1>1, ProcAssumption DEF StagedIsOwn, Running, Completed
<1>5. Counted' /\ ReplaysTheOutcome'
  BY <1>1 DEF Counted, ReplaysTheOutcome
<1> QED BY <1>2, <1>3, <1>4, <1>5

LEMMA AcquireStep ==
    ASSUME Inductive, NEW p \in Procs, Acquire(p)
    PROVE  Inductive'
<1> USE DEF Inductive
<1>1. /\ pc[p] = "begin" /\ pc'[p] = "acquired"
      /\ \A q \in Procs \ {p} : pc'[q] = pc[q]
      /\ db[req[p].key] = Unused
      /\ staged' = [db EXCEPT ![req[p].key] = Running(req[p])]
      /\ writer' = p /\ MayWrite(p)
      /\ UNCHANGED <<db, req, seen, executed, outcome>>
  BY DEF Acquire, Write, Goto, WellTyped
<1>2. req[p] \in Requested
  BY <1>1 DEF WellTyped
<1>3. WellTyped'
  BY <1>1, <1>2 DEF WellTyped, Acquire, Write, Goto, Points, SnapshotStates
<1>4. OneHolder' /\ HolderRuns'
  BY <1>1 DEF OneHolder, HolderRuns, Holds, Running
<1>5. StagedIsOwn'
  BY <1>1, <1>2, OnlyTheWriter, ProcAssumption DEF StagedIsOwn, Running, Completed
<1>6. Counted' /\ ReplaysTheOutcome'
  BY <1>1 DEF Counted, ReplaysTheOutcome
<1> QED BY <1>3, <1>4, <1>5, <1>6

\* The record is published that the request acquired: from here on it is the
\* holder, unless it does not hear of the commit.
LEMMA CommitAcquiredStep ==
    ASSUME Inductive, NEW p \in Procs, CommitAcquired(p)
    PROVE  Inductive'
<1> USE DEF Inductive
<1> DEFINE k == req[p].key
<1>1. /\ pc[p] = "acquired" /\ writer = p /\ req[p] \in Requested /\ k \in Keys
      /\ db[k] = Unused /\ db' = [db EXCEPT ![k] = Running(req[p])]
      /\ staged' = db' /\ writer' = NoProc
      /\ pc'[p] = "idle" \/ (pc'[p] = "running" /\ req'[p] = req[p])
      /\ \A q \in Procs \ {p} : pc'[q] = pc[q] /\ req'[q] = req[q] /\ seen'[q] = seen[q]
      /\ UNCHANGED <<executed, outcome>>
  BY DEF CommitAcquired, Commit, Goto, Answer, StagedIsOwn, WellTyped, Requested
<1>2. \A q \in Procs \ {p} : pc[q] \notin {"acquired", "written"}
  BY <1>1 DEF StagedIsOwn
<1>3. \A q \in Procs \ {p} : Holds(q) => req[q].key # k
  <2> SUFFICES ASSUME NEW q \in Procs \ {p}, Holds(q), req[q].key = k PROVE FALSE
    OBVIOUS
  <2>1. req[q] \in Requested /\ db[k] = Running(req[q])
    BY DEF HolderRuns
  <2> QED BY <1>1, <2>1, RecordKinds
<1>4. db' \in Databases
  BY <1>1, RecordKinds DEF WellTyped, Databases
<1>5. WellTyped'
  <2>1. snapshot' \in [Procs -> SnapshotStates]
    BY DEF CommitAcquired, Commit, Outdated, WellTyped, SnapshotStates
  <2>2. /\ pc' \in [Procs -> Points]
        /\ req' \in [Procs -> Requested \cup {NoRequest}]
        /\ seen' \in [Procs -> Replies \cup {NoRow}]
        /\ answer' \in [Procs -> Outcomes]
        /\ \A q \in Procs : pc'[q] # "idle" => req'[q] \in Requested /\ answer'[q] = "none"
    BY <1>1 DEF CommitAcquired, Goto, Answer, WellTyped, Points, Outcomes
  <2> QED BY <1>1, <1>4, <2>1, <2>2 DEF WellTyped
<1>6. OneHolder'
  BY <1>1, <1>3 DEF OneHolder, Holds
<1>7. HolderRuns'
  <2>1. executed[k] = 0
    BY <1>1 DEF Counted
  <2>2. db'[k] = Running(req[p])
    BY <1>1 DEF WellTyped, Databases
  <2>3. \A j \in Keys \ {k} : db'[j] = db[j]
    BY <1>1 DEF WellTyped, Databases
  <2>4. \A q \in Procs \ {p} : Holds(q)' => Holds(q) /\ req[q].key \in Keys \ {k}
    BY <1>1, <1>3 DEF Holds, HolderRuns, Requested
  <2> QED BY <1>1, <2>1, <2>2, <2>3, <2>4 DEF HolderRuns, Holds, Running
<1>8. StagedIsOwn'
  BY <1>1, <1>2, ProcAssumption DEF StagedIsOwn
<1>9. Counted'
  BY <1>1, RecordKinds DEF Counted, WellTyped, Databases
<1>10. ReplaysTheOutcome'
  BY <1>1, RecordKinds DEF ReplaysTheOutcome, WellTyped, Databases
<1> QED BY <1>5, <1>6, <1>7, <1>8, <1>9, <1>10

\* The operation of the caller is entered by the holder of its key alone.
LEMMA ExecuteStep ==
    ASSUME Inductive, NEW p \in Procs, NEW body \in Bodies, Execute(p, body)
    PROVE  Inductive'
<1> USE DEF Inductive
<1> DEFINE k == req[p].key
<1>1. /\ pc[p] = "running" /\ Holds(p) /\ req[p] \in Requested /\ k \in Keys
      /\ db[k] = Running(req[p]) /\ executed[k] = 0
      /\ executed' = [executed EXCEPT ![k] = executed[k] + 1]
      /\ outcome' = [outcome EXCEPT ![k] = [payload |-> req[p].payload, body |-> body]]
      /\ pc'[p] = "executed" /\ seen'[p] = [body |-> body]
      /\ \A q \in Procs \ {p} : pc'[q] = pc[q] /\ seen'[q] = seen[q]
      /\ UNCHANGED <<db, staged, writer, snapshot, req, answer>>
  BY DEF Execute, Saw, storeVars, HolderRuns, Holds, Requested, WellTyped
<1>2. \A q \in Procs \ {p} : Holds(q) => req[q].key # k
  BY <1>1 DEF OneHolder
<1>3. /\ executed'[k] = 1 /\ outcome'[k] = [payload |-> req[p].payload, body |-> body]
      /\ \A j \in Keys \ {k} : executed'[j] = executed[j] /\ outcome'[j] = outcome[j]
  BY <1>1 DEF WellTyped
<1>4. WellTyped'
  <2>1. executed' \in [Keys -> Nat] /\ outcome' \in [Keys -> Outcome \cup {NoOutcome}]
    BY <1>1 DEF WellTyped, Outcome, Requested
  <2>2. pc' \in [Procs -> Points] /\ seen' \in [Procs -> Replies \cup {NoRow}]
    BY DEF Execute, Saw, WellTyped, Points, Replies
  <2> QED BY <1>1, <2>1, <2>2 DEF WellTyped
<1>5. OneHolder'
  BY <1>1 DEF OneHolder, Holds
<1>6. HolderRuns'
  <2>1. \A q \in Procs \ {p} : Holds(q)' => Holds(q) /\ req[q].key \in Keys \ {k}
    BY <1>1, <1>2 DEF Holds, HolderRuns, Requested
  <2> QED BY <1>1, <1>3, <2>1 DEF HolderRuns, Holds, Running, Replies
<1>7. StagedIsOwn'
  BY <1>1 DEF StagedIsOwn, Running, Completed
<1>8. Counted'
  BY <1>1, <1>3, RecordKinds DEF Counted
<1>9. ReplaysTheOutcome'
  BY <1>1, <1>3, RecordKinds DEF ReplaysTheOutcome
<1> QED BY <1>4, <1>5, <1>6, <1>7, <1>8, <1>9

LEMMA CompleteStep ==
    ASSUME Inductive, NEW p \in Procs, Complete(p)
    PROVE  Inductive'
<1> USE DEF Inductive
<1> DEFINE k == req[p].key
<1>1. /\ pc[p] = "executed" /\ pc'[p] = "written"
      /\ \A q \in Procs \ {p} : pc'[q] = pc[q]
      /\ MayWrite(p) /\ writer' = p
      /\ UNCHANGED <<db, req, seen, executed, outcome>>
  BY DEF Complete, Write, Goto, WellTyped
<1>2. /\ Holds(p) /\ req[p] \in Requested /\ db[k] = Running(req[p])
      /\ seen[p] \in Replies /\ seen[p].body \in Bodies
  BY <1>1 DEF HolderRuns, Holds, Replies
<1>3. staged' = [db EXCEPT ![k] = Completed(req[p], seen[p].body)]
  BY <1>2, RecordKinds DEF Complete, Write
<1>4. WellTyped'
  BY <1>1 DEF WellTyped, Complete, Write, Goto, Points, SnapshotStates
<1>5. OneHolder' /\ HolderRuns'
  BY <1>1 DEF OneHolder, HolderRuns, Holds, Running
<1>6. StagedIsOwn'
  BY <1>1, <1>3, OnlyTheWriter, ProcAssumption DEF StagedIsOwn, Running, Completed
<1>7. Counted' /\ ReplaysTheOutcome'
  BY <1>1 DEF Counted, ReplaysTheOutcome
<1> QED BY <1>4, <1>5, <1>6, <1>7

\* What the holder publishes is the outcome of its execution.
LEMMA TxCommitStep ==
    ASSUME Inductive, NEW p \in Procs, TxCommit(p)
    PROVE  Inductive'
<1> USE DEF Inductive
<1> DEFINE k == req[p].key
           final == Completed(req[p], seen[p].body)
<1>1. /\ pc[p] = "written" /\ writer = p /\ db' = staged /\ staged' = db' /\ writer' = NoProc
      /\ pc'[p] = "idle"
      /\ \A q \in Procs \ {p} : pc'[q] = pc[q] /\ req'[q] = req[q] /\ seen'[q] = seen[q]
      /\ UNCHANGED <<executed, outcome>>
  BY DEF TxCommit, CommitAndAnswer, Commit, Answer, WellTyped
<1>2. /\ Holds(p) /\ req[p] \in Requested /\ k \in Keys /\ seen[p].body \in Bodies
      /\ executed[k] = 1
      /\ outcome[k] = [payload |-> req[p].payload, body |-> seen[p].body]
  BY <1>1 DEF HolderRuns, Holds, Replies, Requested
<1>3. /\ db' = [db EXCEPT ![k] = final]
      /\ final \in Records /\ final.status = "completed"
      /\ final.payload = req[p].payload /\ final.body = seen[p].body
  BY <1>1, <1>2, RecordKinds DEF StagedIsOwn
<1> HIDE DEF final
<1>4. db'[k] = final /\ \A j \in Keys \ {k} : db'[j] = db[j]
  BY <1>2, <1>3 DEF WellTyped, Databases
<1>5. \A q \in Procs \ {p} : Holds(q) => req[q].key \in Keys \ {k}
  BY <1>2 DEF OneHolder, HolderRuns, Requested
<1>6. WellTyped'
  <2>1. db' \in Databases
    BY <1>2, <1>3 DEF WellTyped, Databases
  <2>2. snapshot' \in [Procs -> SnapshotStates]
    BY DEF TxCommit, CommitAndAnswer, Commit, Outdated, WellTyped, SnapshotStates
  <2>3. /\ pc' \in [Procs -> Points]
        /\ req' \in [Procs -> Requested \cup {NoRequest}]
        /\ seen' \in [Procs -> Replies \cup {NoRow}]
        /\ answer' \in [Procs -> Outcomes]
        /\ \A q \in Procs : pc'[q] # "idle" => req'[q] \in Requested /\ answer'[q] = "none"
    BY <1>1 DEF TxCommit, CommitAndAnswer, Answer, WellTyped, Points, Outcomes
  <2> QED BY <1>1, <2>1, <2>2, <2>3 DEF WellTyped
<1>7. OneHolder'
  BY <1>1 DEF OneHolder, Holds
<1>8. HolderRuns'
  <2>1. \A q \in Procs : Holds(q)' => q # p /\ Holds(q)
    BY <1>1 DEF Holds
  <2> QED BY <1>1, <1>4, <1>5, <2>1 DEF HolderRuns, Running
<1>9. StagedIsOwn'
  BY <1>1, ProcAssumption DEF StagedIsOwn
<1>10. Counted'
  BY <1>1, <1>2, <1>3, <1>4, RecordKinds DEF Counted
<1>11. ReplaysTheOutcome'
  BY <1>1, <1>2, <1>3, <1>4 DEF ReplaysTheOutcome
<1> QED BY <1>6, <1>7, <1>8, <1>9, <1>10, <1>11

LEMMA CrashStep ==
    ASSUME Inductive, Crash
    PROVE  Inductive'
<1> USE DEF Inductive
<1>1. /\ \A q \in Procs : pc'[q] = "idle"
      /\ UNCHANGED <<db, executed, outcome>> /\ staged' = db /\ writer' = NoProc
  BY DEF Crash, Die, LoseTransactions
<1>2. WellTyped'
  BY <1>1 DEF WellTyped, Crash, Die, LoseTransactions, Points, SnapshotStates, Outcomes
<1> QED BY <1>1, <1>2, ProcAssumption
        DEF OneHolder, HolderRuns, Holds, StagedIsOwn, Counted, ReplaysTheOutcome

-----------------------------------------------------------------------------
\* The invariant

LEMMA InitInductive == Init => Inductive
<1> SUFFICES ASSUME Init PROVE Inductive
  OBVIOUS
<1>1. /\ db = [j \in Keys |-> Unused] /\ staged = db /\ writer = NoProc
      /\ \A p \in Procs : pc[p] = "idle"
      /\ executed = [j \in Keys |-> 0]
  BY DEF Init, InitStore, InitRequests
<1>2. WellTyped
  BY <1>1, RecordKinds
     DEF Init, InitStore, InitRequests, WellTyped, Databases, Points, SnapshotStates, Outcomes
<1> QED BY <1>1, <1>2, ProcAssumption, RecordKinds
        DEF Inductive, OneHolder, HolderRuns, Holds, StagedIsOwn, Counted, ReplaysTheOutcome

LEMMA StepOfRequest ==
    ASSUME Inductive, NEW p \in Procs, Step(p)
    PROVE  Inductive'
<1>1. CASE \E r \in Requested : Receive(p, r)
  BY <1>1, ReceiveStep
<1>2. CASE Acquire(p)
  BY <1>2, AcquireStep
<1>3. CASE CommitAcquired(p)
  BY <1>3, CommitAcquiredStep
<1>4. CASE \E body \in Bodies : Execute(p, body)
  BY <1>4, ExecuteStep
<1>5. CASE Complete(p)
  BY <1>5, CompleteStep
<1>6. CASE TxCommit(p)
  BY <1>6, TxCommitStep
<1>7. CASE Replay(p) \/ Conflict(p) \/ CompleteConflict(p) \/ Fail(p)
  <2>1. \E how \in Outcomes : GiveUp(p, how) /\ UNCHANGED <<executed, outcome>>
    BY <1>7 DEF Replay, Conflict, CompleteConflict, Fail, GiveUpAnywhere, Outcomes
  <2> QED BY <2>1, GiveUpStep
<1> QED BY <1>1, <1>2, <1>3, <1>4, <1>5, <1>6, <1>7 DEF Step

LEMMA NextInductive == Inductive /\ [Next]_vars => Inductive'
<1> SUFFICES ASSUME Inductive, [Next]_vars PROVE Inductive'
  OBVIOUS
<1>1. CASE \E p \in Procs : Step(p)
  BY <1>1, StepOfRequest
<1>2. CASE Crash
  BY <1>2, CrashStep
<1>3. CASE UNCHANGED vars
  BY <1>3 DEF vars, storeVars, requestVars, Inductive, WellTyped, OneHolder, HolderRuns,
              Holds, StagedIsOwn, Counted, ReplaysTheOutcome, Running, Completed
<1> QED BY <1>1, <1>2, <1>3 DEF Next

-----------------------------------------------------------------------------
\* A request holds its key from the commit of Begin to the commit of Complete.
THEOREM InductiveInvariant == Spec => []Inductive
BY InitInductive, NextInductive, PTL DEF Spec

\* The operation under a key is entered once at most, by however many requests
\* that Begin lets through, and wherever they fail or crash.
THEOREM OnceExecuted == Spec => []ExecutedOnce
<1>1. Inductive => ExecutedOnce
  BY DEF Inductive, Counted, ExecutedOnce
<1> QED BY <1>1, InductiveInvariant, PTL

\* What Begin replays is what the operation returned, for its own payload.
THEOREM OutcomeReplayed == Spec => []ReplaysTheOutcome
<1>1. Inductive => ReplaysTheOutcome
  BY DEF Inductive
<1> QED BY <1>1, InductiveInvariant, PTL

\* A step answers its own request only, and "ok" is what a replay or the last
\* commit of a holder says.
LEMMA OkIsEarned ==
    ASSUME Inductive, NEW q \in Procs, Step(q),
           NEW p \in Procs, pc[p] # "idle", answer'[p] = "ok"
    PROVE  Replay(p) \/ TxCommit(p)
<1>1. answer \in [Procs -> Outcomes] /\ answer[p] = "none"
  BY DEF Inductive, WellTyped
<1>2. q = p
  BY <1>1 DEF Step, Receive, Take, Acquire, Goto, CommitAcquired, Answer, Replay, Conflict,
              GiveUp, Execute, Saw, Complete, CompleteConflict, TxCommit, CommitAndAnswer,
              Fail, GiveUpAnywhere
<1> QED BY <1>1, <1>2 DEF Step, Receive, Take, Acquire, Goto, CommitAcquired, Answer, Conflict,
              GiveUp, Execute, Saw, Complete, CompleteConflict, Fail, GiveUpAnywhere

\* Whoever is told "ok" asked what was executed under its key: a replay has
\* compared the payloads, a holder answers with its own execution.
THEOREM EachItsOwnAnswer == Spec => AnsweredAsAsked
<1>1. Inductive /\ [Next]_vars =>
        [\A p \in Procs : pc[p] # "idle" /\ answer'[p] = "ok" =>
            outcome[req[p].key].payload = req[p].payload]_vars
  <2> SUFFICES ASSUME Inductive, Next, NEW p \in Procs, pc[p] # "idle", answer'[p] = "ok"
               PROVE  outcome[req[p].key].payload = req[p].payload
    OBVIOUS
  <2>1. req[p] \in Requested /\ req[p].key \in Keys
    BY DEF Inductive, WellTyped, Requested
  <2>2. CASE Crash
    BY <2>2 DEF Crash, Die
  <2>3. CASE Replay(p)
    <3>1. /\ db[req[p].key].status = "completed"
          /\ db[req[p].key].payload = req[p].payload
      BY <2>3 DEF Replay, Replayable
    <3>2. [payload |-> db[req[p].key].payload, body |-> db[req[p].key].body]
            = outcome[req[p].key]
      BY <2>1, <3>1 DEF Inductive, ReplaysTheOutcome
    <3> QED BY <3>1, <3>2
  <2>4. CASE TxCommit(p)
    <3>1. Holds(p) /\ pc[p] # "running"
      BY <2>4 DEF TxCommit, CommitAndAnswer, Holds
    <3>2. outcome[req[p].key] = [payload |-> req[p].payload, body |-> seen[p].body]
      BY <3>1 DEF Inductive, HolderRuns
    <3> QED BY <3>2
  <2> QED BY <2>2, <2>3, <2>4, OkIsEarned DEF Next
<1> QED BY <1>1, InductiveInvariant, PTL DEF Spec, AnsweredAsAsked

\* A commit moves the record of its own request one step forward, and nothing
\* else is ever written.
LEMMA CommitMoves ==
    ASSUME Inductive, NEW p \in Procs, CommitAcquired(p) \/ TxCommit(p),
           NEW k \in Keys, db'[k] # db[k]
    PROVE  \/ /\ db[k] = Unused /\ executed[k] = 0
              /\ \E r \in Requested : r.key = k /\ db'[k] = Running(r)
           \/ /\ db[k].status = "running" /\ executed[k] = 1
              /\ db[k].payload = outcome[k].payload
              /\ db'[k] = Completed(db[k], outcome[k].body)
<1> USE DEF Inductive
<1>1. db' = staged /\ writer = p
  BY DEF CommitAcquired, TxCommit, CommitAndAnswer, Commit, StagedIsOwn
<1>2. db \in Databases /\ k \in DOMAIN db
  BY DEF WellTyped, Databases
<1>3. CASE CommitAcquired(p)
  <2>1. /\ req[p] \in Requested /\ db[req[p].key] = Unused
        /\ staged = [db EXCEPT ![req[p].key] = Running(req[p])]
    BY <1>3 DEF CommitAcquired, StagedIsOwn
  <2>2. req[p].key = k /\ db'[k] = Running(req[p])
    BY <1>1, <1>2, <2>1 DEF Databases
  <2> QED BY <2>1, <2>2 DEF Counted
<1>4. CASE TxCommit(p)
  <2>1. pc[p] = "written" /\ Holds(p)
    BY <1>4 DEF TxCommit, CommitAndAnswer, Holds
  <2>2. /\ staged = [db EXCEPT ![req[p].key] = Completed(req[p], seen[p].body)]
        /\ req[p] \in Requested /\ db[req[p].key] = Running(req[p])
        /\ executed[req[p].key] = 1
        /\ outcome[req[p].key] = [payload |-> req[p].payload, body |-> seen[p].body]
    BY <2>1 DEF StagedIsOwn, HolderRuns
  <2>3. req[p].key = k /\ db'[k] = Completed(req[p], seen[p].body)
    BY <1>1, <1>2, <2>2 DEF Databases
  <2> QED BY <2>2, <2>3 DEF Running, Completed
<1> QED BY <1>3, <1>4

\* Retries, failures and crashes never take a record back or change its
\* payload or its answer: a record is completed by the outcome of its one
\* execution and stays so.
THEOREM RecordsAreFinal == Spec => RecordsGoForward
<1>1. Inductive /\ [Next]_vars =>
        [\A k \in Keys : db'[k] # db[k] =>
            \/ /\ db[k] = Unused /\ executed[k] = 0
               /\ \E r \in Requested : r.key = k /\ db'[k] = Running(r)
            \/ /\ db[k].status = "running" /\ executed[k] = 1
               /\ db[k].payload = outcome[k].payload
               /\ db'[k] = Completed(db[k], outcome[k].body)]_vars
  <2> SUFFICES ASSUME Inductive, Next, NEW k \in Keys, db'[k] # db[k]
               PROVE  \/ /\ db[k] = Unused /\ executed[k] = 0
                         /\ \E r \in Requested : r.key = k /\ db'[k] = Running(r)
                      \/ /\ db[k].status = "running" /\ executed[k] = 1
                         /\ db[k].payload = outcome[k].payload
                         /\ db'[k] = Completed(db[k], outcome[k].body)
    OBVIOUS
  <2>1. ~Crash
    BY DEF Crash, Die, LoseTransactions
  <2>2. ASSUME NEW p \in Procs, Step(p) PROVE CommitAcquired(p) \/ TxCommit(p)
    BY <2>2 DEF Step, Receive, Take, storeVars, Acquire, Write, Replay, Conflict, GiveUp, Rollback,
                Execute, Complete, CompleteConflict, Fail, GiveUpAnywhere
  <2> QED BY <2>1, <2>2, CommitMoves DEF Next
<1> QED BY <1>1, InductiveInvariant, PTL DEF Spec, RecordsGoForward
=============================================================================
