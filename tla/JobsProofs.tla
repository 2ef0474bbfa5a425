----------------------------- MODULE JobsProofs -----------------------------
(***************************************************************************)
(* The safety of Jobs: for any number of jobs and of servers, outcomes are *)
(* earned; where one server runs, which is how the job machine of          *)
(* states.go is meant to be worked, claims are kept and the machine is     *)
(* followed.                                                               *)
(***************************************************************************)
EXTENDS Jobs, TLAPS

LEMMA Numbers ==
    /\ Batch \in Nat /\ MaxAttempts \in Nat /\ StaleAge \in Nat \ {0} /\ MaxDelay \in Nat
    /\ MaxClaims \in Nat /\ MaxOverdue \in Nat /\ MaxFaults \in Nat
BY BoundAssumption

LEMMA BackoffType ==
    ASSUME NEW n \in Nat
    PROVE  Backoff(n) \in Int
<1>1. n * n \in Int
  OBVIOUS
<1> QED BY <1>1, Numbers DEF Backoff

LEMMA NextStatusType ==
    ASSUME NEW outcome, NEW n
    PROVE  NextStatus(outcome, n) \in {"succeeded", "failed", "retry"}
BY DEF NextStatus

-----------------------------------------------------------------------------
\* One lemma per action: with any number of servers

LEMMA EnqueueStep ==
    ASSUME Inductive, NEW j \in Jobs, NEW delay \in 0..1, Enqueue(j, delay)
    PROVE  Inductive'
<1>1. TypeOK'
  BY DEF Inductive, TypeOK, Enqueue, JobStates, runnerVars
<1>2. InHand' /\ AboutToFinish'
  BY DEF Inductive, InHand, AboutToFinish, Enqueue, runnerVars
<1>3. OutcomesAreEarned'
  BY DEF Inductive, TypeOK, OutcomesAreEarned, Enqueue
<1> QED BY <1>1, <1>2, <1>3 DEF Inductive

\* The runner starts, or is asked to stop.
LEMMA StartStep ==
    ASSUME Inductive, NEW r \in Runners, Start(r) \/ Stop(r)
    PROVE  Inductive'
<1>1. TypeOK'
  <2>1. CASE Start(r)
    BY <2>1 DEF Inductive, TypeOK, Start, Points, rows
  <2>2. CASE Stop(r)
    BY <2>2, Numbers DEF Inductive, TypeOK, Stop, rows
  <2> QED BY <2>1, <2>2
<1>2. InHand' /\ AboutToFinish'
  BY DEF Inductive, TypeOK, InHand, AboutToFinish, Start, Stop, rows
<1>3. OutcomesAreEarned'
  BY DEF Inductive, OutcomesAreEarned, Start, Stop, rows
<1> QED BY <1>1, <1>2, <1>3 DEF Inductive

LEMMA RecoverStep ==
    ASSUME Inductive, NEW r \in Runners, Recover(r) \/ RecoverFails(r)
    PROVE  Inductive'
<1>1. TypeOK'
  BY Numbers DEF Inductive, TypeOK, Recover, RecoverFails, Points, JobStates, Stale, rows
<1>2. InHand' /\ AboutToFinish'
  BY DEF Inductive, TypeOK, InHand, AboutToFinish, Recover, RecoverFails, rows
<1>3. OutcomesAreEarned'
  BY DEF Inductive, TypeOK, OutcomesAreEarned, Recover, RecoverFails, Stale, rows
<1> QED BY <1>1, <1>2, <1>3 DEF Inductive

\* What a claim does to the rows.
LEMMA ClaimWrites ==
    ASSUME Inductive, NEW r \in Runners, Claim(r)
    PROVE  \E claimed \in SUBSET Jobs :
            /\ \A j \in claimed : status[j] \in {"pending", "retry"}
            /\ status' = [j \in Jobs |-> IF j \in claimed THEN "running" ELSE status[j]]
            /\ attempts' = [j \in Jobs |-> IF j \in claimed THEN attempts[j] + 1 ELSE attempts[j]]
            /\ age' = [j \in Jobs |-> IF j \in claimed THEN 0 ELSE age[j]]
            /\ batch' = [batch EXCEPT ![r] = claimed]
            /\ at[r] = "polling" /\ at' = [at EXCEPT ![r] = "dispatching"]
            /\ UNCHANGED <<due, stopping, current, result, read, handledOK, faults>>
BY DEF Claim, Ready, Counted

LEMMA ClaimStep ==
    ASSUME Inductive, NEW r \in Runners, Claim(r)
    PROVE  Inductive'
<1>1. PICK claimed \in SUBSET Jobs :
        /\ \A j \in claimed : status[j] \in {"pending", "retry"}
        /\ status' = [j \in Jobs |-> IF j \in claimed THEN "running" ELSE status[j]]
        /\ attempts' = [j \in Jobs |-> IF j \in claimed THEN attempts[j] + 1 ELSE attempts[j]]
        /\ age' = [j \in Jobs |-> IF j \in claimed THEN 0 ELSE age[j]]
        /\ batch' = [batch EXCEPT ![r] = claimed]
        /\ at[r] = "polling" /\ at' = [at EXCEPT ![r] = "dispatching"]
        /\ UNCHANGED <<due, stopping, current, result, read, handledOK, faults>>
  BY ClaimWrites
<1>2. TypeOK'
  BY <1>1, Numbers DEF Inductive, TypeOK, Points, JobStates
<1>3. InHand'
  BY <1>1 DEF Inductive, TypeOK, InHand
<1>4. \A j \in Jobs : attempts[j] \in Nat /\ attempts'[j] \in Nat /\ attempts'[j] >= attempts[j]
  BY <1>1 DEF Inductive, TypeOK
<1>5. AboutToFinish'
  <2> SUFFICES ASSUME NEW q \in Runners
               PROVE  /\ at'[q] \in {"finishing", "writing"} /\ result'[q] = "nil" =>
                            current'[q] \in handledOK'
                      /\ at'[q] = "writing" => read'[q] <= attempts'[current'[q]]
    BY DEF AboutToFinish
  <2>1. at'[q] \in {"finishing", "writing"} => at'[q] = at[q] /\ current[q] \in Jobs
    BY <1>1 DEF Inductive, TypeOK, InHand
  <2>2. read[q] \in Nat
    BY DEF Inductive, TypeOK
  <2> QED BY <1>1, <1>4, <2>1, <2>2 DEF Inductive, AboutToFinish
<1>6. OutcomesAreEarned'
  <2> SUFFICES ASSUME NEW j \in Jobs
               PROVE  /\ status'[j] = "succeeded" => j \in handledOK'
                      /\ status'[j] = "failed" => attempts'[j] >= MaxAttempts
    BY DEF OutcomesAreEarned
  <2> QED BY <1>1, <1>4, Numbers DEF Inductive, OutcomesAreEarned
<1> QED BY <1>2, <1>3, <1>5, <1>6 DEF Inductive

LEMMA DispatchStep ==
    ASSUME Inductive, NEW r \in Runners, NEW j \in Jobs, Dispatch(r, j)
    PROVE  Inductive'
<1>1. TypeOK'
  BY DEF Inductive, TypeOK, Dispatch, Points, rows
<1>2. InHand' /\ AboutToFinish'
  BY DEF Inductive, TypeOK, InHand, AboutToFinish, Dispatch, rows
<1>3. OutcomesAreEarned'
  BY DEF Inductive, OutcomesAreEarned, Dispatch, rows
<1> QED BY <1>1, <1>2, <1>3 DEF Inductive

LEMMA HandlerStep ==
    ASSUME Inductive, NEW r \in Runners, NEW outcome \in {"nil", "error"},
           HandlerReturns(r, outcome)
    PROVE  Inductive'
<1>1. current[r] \in Jobs
  BY DEF Inductive, InHand, HandlerReturns
<1>2. TypeOK'
  BY <1>1 DEF Inductive, TypeOK, HandlerReturns, Points, rows
<1>3. InHand'
  BY DEF Inductive, TypeOK, InHand, HandlerReturns, rows
<1>4. AboutToFinish'
  BY <1>1 DEF Inductive, TypeOK, InHand, AboutToFinish, HandlerReturns, rows
<1>5. OutcomesAreEarned'
  BY DEF Inductive, OutcomesAreEarned, HandlerReturns, rows
<1> QED BY <1>2, <1>3, <1>4, <1>5 DEF Inductive

LEMMA FinishReadStep ==
    ASSUME Inductive, NEW r \in Runners, FinishRead(r)
    PROVE  Inductive'
<1>1. current[r] \in Jobs /\ attempts[current[r]] \in Nat
  BY DEF Inductive, InHand, TypeOK, FinishRead
<1>2. TypeOK'
  BY <1>1 DEF Inductive, TypeOK, FinishRead, Points, rows
<1>3. InHand'
  BY DEF Inductive, TypeOK, InHand, FinishRead, rows
<1>4. AboutToFinish'
  BY <1>1 DEF Inductive, TypeOK, AboutToFinish, FinishRead, rows
<1>5. OutcomesAreEarned'
  BY DEF Inductive, OutcomesAreEarned, FinishRead, rows
<1> QED BY <1>2, <1>3, <1>4, <1>5 DEF Inductive

\* Whatever becomes of a job, the runner goes on with nothing in hand.
LEMMA PutDownStep ==
    ASSUME Inductive, NEW r \in Runners, PutDown(r), at[r] \in {"finishing", "writing"},
           UNCHANGED <<attempts, handledOK>>
    PROVE  /\ InHand' /\ AboutToFinish'
           /\ at' \in [Runners -> Points] /\ stopping' \in [Runners -> BOOLEAN]
           /\ batch' \in [Runners -> SUBSET Jobs] /\ current' \in [Runners -> Jobs \cup {NoJob}]
           /\ result' \in [Runners -> {"nil", "error"}] /\ read' \in [Runners -> Nat]
<1>1. InHand'
  BY DEF Inductive, TypeOK, InHand, PutDown
<1>2. AboutToFinish'
  BY DEF Inductive, TypeOK, AboutToFinish, PutDown
<1> QED BY <1>1, <1>2 DEF Inductive, TypeOK, PutDown, Points

\* FinishJob finds the job not running, or a statement of it fails.
LEMMA FinishNothingStep ==
    ASSUME Inductive, NEW r \in Runners, FinishConflict(r) \/ FinishFails(r)
    PROVE  Inductive'
<1>1. /\ PutDown(r) /\ at[r] \in {"finishing", "writing"} /\ UNCHANGED <<rows, handledOK>>
      /\ faults' = faults \/ (faults < MaxFaults /\ faults' = faults + 1)
  BY DEF FinishConflict, FinishFails
<1>2. /\ InHand' /\ AboutToFinish'
      /\ at' \in [Runners -> Points] /\ stopping' \in [Runners -> BOOLEAN]
      /\ batch' \in [Runners -> SUBSET Jobs] /\ current' \in [Runners -> Jobs \cup {NoJob}]
      /\ result' \in [Runners -> {"nil", "error"}] /\ read' \in [Runners -> Nat]
  BY <1>1, PutDownStep DEF rows
<1>3. TypeOK'
  <2>1. faults' \in 0..MaxFaults
    <3>1. faults \in 0..MaxFaults
      BY DEF Inductive, TypeOK
    <3>2. faults' = faults \/ (faults < MaxFaults /\ faults' = faults + 1)
      BY <1>1
    <3> QED BY <3>1, <3>2, Numbers
  <2> QED BY <1>1, <1>2, <2>1 DEF Inductive, TypeOK, rows
<1>4. OutcomesAreEarned'
  BY <1>1 DEF Inductive, OutcomesAreEarned, rows
<1> QED BY <1>2, <1>3, <1>4 DEF Inductive

LEMMA FinishWriteStep ==
    ASSUME Inductive, NEW r \in Runners, FinishWrite(r)
    PROVE  Inductive'
<1>1. /\ at[r] = "writing" /\ PutDown(r) /\ UNCHANGED <<attempts, handledOK, faults>>
      /\ status' = [status EXCEPT ![current[r]] = NextStatus(result[r], read[r])]
      /\ due' = [due EXCEPT ![current[r]] = IF result[r] = "nil" THEN @ ELSE Backoff(read[r])]
      /\ age' = [age EXCEPT ![current[r]] = 0]
  BY DEF FinishWrite
<1>2. /\ current[r] \in Jobs /\ read[r] \in Nat /\ attempts[current[r]] \in Nat
      /\ read[r] <= attempts[current[r]]
      /\ result[r] = "nil" => current[r] \in handledOK
  BY <1>1 DEF Inductive, TypeOK, InHand, AboutToFinish
<1>3. /\ InHand' /\ AboutToFinish'
      /\ at' \in [Runners -> Points] /\ stopping' \in [Runners -> BOOLEAN]
      /\ batch' \in [Runners -> SUBSET Jobs] /\ current' \in [Runners -> Jobs \cup {NoJob}]
      /\ result' \in [Runners -> {"nil", "error"}] /\ read' \in [Runners -> Nat]
  BY <1>1, PutDownStep
<1>4. TypeOK'
  <2>1. status' \in [Jobs -> JobStates]
    BY <1>1, <1>2, NextStatusType DEF Inductive, TypeOK, JobStates
  <2>2. due' \in [Jobs -> Int]
    BY <1>1, <1>2, BackoffType DEF Inductive, TypeOK
  <2>3. age' \in [Jobs -> 0..StaleAge]
    <3>1. 0 \in 0..StaleAge
      BY Numbers
    <3>2. age \in [Jobs -> 0..StaleAge] /\ age' = [age EXCEPT ![current[r]] = 0]
      BY <1>1 DEF Inductive, TypeOK
    <3> QED BY <3>1, <3>2
  <2> QED BY <1>1, <1>3, <2>1, <2>2, <2>3 DEF Inductive, TypeOK
<1>5. OutcomesAreEarned'
  <2> SUFFICES ASSUME NEW j \in Jobs
               PROVE  /\ status'[j] = "succeeded" => j \in handledOK
                      /\ status'[j] = "failed" => attempts[j] >= MaxAttempts
    BY <1>1 DEF OutcomesAreEarned
  <2>1. CASE j # current[r]
    BY <1>1, <2>1 DEF Inductive, TypeOK, OutcomesAreEarned
  <2>2. CASE j = current[r]
    <3>1. status'[j] = NextStatus(result[r], read[r])
      BY <1>1, <1>2, <2>2 DEF Inductive, TypeOK
    <3> QED BY <1>2, <2>2, <3>1, Numbers DEF NextStatus
  <2> QED BY <2>1, <2>2
<1> QED BY <1>3, <1>4, <1>5 DEF Inductive

\* The server stops or crashes, and forgets what it had in hand.
LEMMA DownStep ==
    ASSUME Inductive, NEW r \in Runners, Stopped(r) \/ Crash(r)
    PROVE  Inductive'
<1>1. /\ GoDown(r) /\ UNCHANGED <<rows, handledOK>>
      /\ faults' = faults \/ (faults < MaxFaults /\ faults' = faults + 1)
  BY DEF Stopped, Crash
<1>2. TypeOK'
  BY <1>1, Numbers DEF Inductive, TypeOK, GoDown, Points, rows
<1>3. InHand' /\ AboutToFinish'
  BY <1>1 DEF Inductive, TypeOK, InHand, AboutToFinish, GoDown, rows
<1>4. OutcomesAreEarned'
  BY <1>1 DEF Inductive, OutcomesAreEarned, rows
<1> QED BY <1>2, <1>3, <1>4 DEF Inductive

LEMMA TickStep ==
    ASSUME Inductive, Tick
    PROVE  Inductive'
<1>1. TypeOK'
  BY Numbers DEF Inductive, TypeOK, Tick, Down, runnerVars
<1>2. InHand' /\ AboutToFinish' /\ OutcomesAreEarned'
  BY DEF Inductive, InHand, AboutToFinish, OutcomesAreEarned, Tick, runnerVars
<1> QED BY <1>1, <1>2 DEF Inductive

LEMMA InitInductive == Init => Inductive
<1> SUFFICES ASSUME Init PROVE Inductive
  OBVIOUS
<1>1. TypeOK
  BY Numbers DEF Init, TypeOK, JobStates, Points
<1>2. InHand /\ AboutToFinish /\ OutcomesAreEarned
  BY DEF Init, InHand, AboutToFinish, OutcomesAreEarned
<1> QED BY <1>1, <1>2 DEF Inductive

LEMMA NextInductive == Inductive /\ [Next]_vars => Inductive'
<1> SUFFICES ASSUME Inductive, [Next]_vars PROVE Inductive'
  OBVIOUS
<1>1. CASE \E r \in Runners : Step(r) \/ Fault(r)
  BY <1>1, StartStep, RecoverStep, ClaimStep, DispatchStep, HandlerStep, FinishReadStep,
     FinishNothingStep, FinishWriteStep, DownStep DEF Step, Fault
<1>2. CASE UNCHANGED vars
  BY <1>2 DEF vars, rows, runnerVars, Inductive, TypeOK, InHand, AboutToFinish,
              OutcomesAreEarned
<1> QED BY <1>1, <1>2, EnqueueStep, TickStep DEF Next

-----------------------------------------------------------------------------
\* Where a runner stands tells what it has in hand, and what it is about to
\* write as an outcome is earned.
THEOREM InductiveInvariant == Spec => []Inductive
BY InitInductive, NextInductive, PTL DEF Spec

\* Jobs and runners keep to their states.
THEOREM TypeCorrect == Spec => []TypeOK
<1>1. Inductive => TypeOK
  BY DEF Inductive
<1> QED BY <1>1, InductiveInvariant, PTL

\* A job succeeds only by its handler and fails only after its last attempt,
\* however many servers take it from one another.
THEOREM OutcomesAreTrue == Spec => []OutcomesAreEarned
<1>1. Inductive => OutcomesAreEarned
  BY DEF Inductive
<1> QED BY <1>1, InductiveInvariant, PTL

-----------------------------------------------------------------------------
\* With one server

Alone == \A r, q \in Runners : r = q

InductiveAlone == Inductive /\ ClaimsAreKept

\* A job that leaves its state is claimed from waiting, or is recovered, or is
\* the one that its server is finishing.
LEMMA StatusMoves ==
    ASSUME Inductive, [Next]_vars, NEW j \in Jobs, status[j] # "absent", status'[j] # status[j]
    PROVE  \/ /\ \E r \in Runners : Claim(r)
              /\ status[j] \in {"pending", "retry"} /\ status'[j] = "running"
           \/ /\ \E r \in Runners : at[r] = "starting"
              /\ status[j] = "running" /\ status'[j] = "retry"
           \/ \E r \in Runners :
                /\ at[r] = "writing" /\ current[r] = j /\ PutDown(r)
                /\ status'[j] \in {"succeeded", "failed", "retry"}
<1>1. ASSUME NEW k \in Jobs, NEW delay \in 0..1, Enqueue(k, delay) PROVE FALSE
  BY <1>1 DEF Enqueue, Inductive, TypeOK
<1>2. ASSUME NEW r \in Runners, Recover(r)
      PROVE  at[r] = "starting" /\ status[j] = "running" /\ status'[j] = "retry"
  BY <1>2 DEF Recover, Stale
<1>3. ASSUME NEW r \in Runners, Claim(r)
      PROVE  status[j] \in {"pending", "retry"} /\ status'[j] = "running"
  BY <1>3, ClaimWrites
<1>4. ASSUME NEW r \in Runners, FinishWrite(r)
      PROVE  /\ at[r] = "writing" /\ current[r] = j /\ PutDown(r)
             /\ status'[j] \in {"succeeded", "failed", "retry"}
  BY <1>4, NextStatusType DEF FinishWrite, Inductive, TypeOK
<1>5. ASSUME UNCHANGED status PROVE FALSE
  BY <1>5
<1>6. ASSUME NEW r \in Runners, Step(r) \/ Fault(r), ~Recover(r), ~Claim(r), ~FinishWrite(r)
      PROVE  UNCHANGED status
  BY <1>6 DEF Step, Fault, Start, Dispatch, HandlerReturns, FinishRead, FinishConflict, Stopped,
              RecoverFails, FinishFails, Stop, Crash, rows
<1>7. Tick \/ UNCHANGED vars => UNCHANGED status
  BY DEF Tick, vars, rows
<1> QED BY <1>1, <1>2, <1>3, <1>4, <1>5, <1>6, <1>7 DEF Next

\* What a runner has in hand.
Held(r) == batch[r] \cup ({current[r]} \ {NoJob})

LEMMA ClaimHeld ==
    ASSUME Inductive, NEW r \in Runners, Claim(r), NEW j \in Held(r)'
    PROVE  status'[j] = "running" /\ at'[r] = "dispatching"
<1>1. PICK claimed \in SUBSET Jobs :
        /\ status' = [k \in Jobs |-> IF k \in claimed THEN "running" ELSE status[k]]
        /\ batch' = [batch EXCEPT ![r] = claimed] /\ UNCHANGED current
        /\ at[r] = "polling" /\ at' = [at EXCEPT ![r] = "dispatching"]
  BY ClaimWrites
<1>2. current'[r] = NoJob /\ batch'[r] = claimed /\ at'[r] = "dispatching"
  BY <1>1 DEF Inductive, TypeOK, InHand
<1> QED BY <1>1, <1>2 DEF Held

\* Its own steps give a runner nothing but what it claims.
LEMMA HeldMoves ==
    ASSUME Inductive, [Next]_vars, NEW r \in Runners, NEW j \in Held(r)'
    PROVE  \/ /\ j \in Held(r)
              /\ at'[r] = "writing" /\ j = current'[r] =>
                    \/ FinishRead(r)
                    \/ at[r] = "writing" /\ j = current[r] /\ read'[r] = read[r]
           \/ Claim(r)
<1> USE DEF Held
<1>1. CASE UNCHANGED runnerVars
  BY <1>1 DEF runnerVars
<1>2. ASSUME NEW q \in Runners, q # r, Step(q) \/ Fault(q)
      PROVE  at'[r] = at[r] /\ batch'[r] = batch[r] /\ current'[r] = current[r] /\ read'[r] = read[r]
  BY <1>2 DEF Step, Fault, Start, Recover, Claim, Dispatch, HandlerReturns, FinishRead,
              FinishConflict, FinishWrite, Stopped, RecoverFails, FinishFails, Stop, Crash,
              GoDown, PutDown, Inductive, TypeOK
<1>3. CASE Start(r) \/ Recover(r) \/ RecoverFails(r) \/ Stop(r)
  BY <1>3 DEF Start, Recover, RecoverFails, Stop, Inductive, TypeOK
<1>4. CASE \E k \in Jobs : Dispatch(r, k)
  BY <1>4 DEF Dispatch, Inductive, TypeOK
<1>5. CASE FinishRead(r) \/ \E outcome \in {"nil", "error"} : HandlerReturns(r, outcome)
  BY <1>5 DEF FinishRead, HandlerReturns, Inductive, TypeOK
<1>6. CASE FinishConflict(r) \/ FinishWrite(r) \/ FinishFails(r)
  BY <1>6 DEF FinishConflict, FinishWrite, FinishFails, PutDown, Inductive, TypeOK
<1>7. CASE Stopped(r) \/ Crash(r)
  BY <1>7 DEF Stopped, Crash, GoDown, Inductive, TypeOK
<1>8. (Tick \/ UNCHANGED vars \/ \E k \in Jobs, delay \in 0..1 : Enqueue(k, delay))
        => UNCHANGED runnerVars
  BY DEF Tick, vars, Enqueue, runnerVars
<1>9. ASSUME NEW q \in Runners, q # r, Step(q) \/ Fault(q)
       PROVE  /\ j \in Held(r)
              /\ at'[r] = "writing" /\ j = current'[r] =>
                    at[r] = "writing" /\ j = current[r] /\ read'[r] = read[r]
  BY <1>2, <1>9
<1> QED BY <1>1, <1>3, <1>4, <1>5, <1>6, <1>7, <1>8, <1>9 DEF Next, Step, Fault

LEMMA AloneInductive ==
    ASSUME Alone
    PROVE  InductiveAlone /\ [Next]_vars => InductiveAlone'
<1> SUFFICES ASSUME InductiveAlone, [Next]_vars PROVE InductiveAlone'
  OBVIOUS
<1>1. Inductive /\ Inductive'
  BY NextInductive DEF InductiveAlone
<1>2. ASSUME NEW r \in Runners, NEW j \in Held(r)'
      PROVE  /\ status'[j] = "running"
             /\ at'[r] = "writing" /\ j = current'[r] => read'[r] = attempts'[j]
  <2>1. CASE Claim(r)
    BY <1>1, <2>1, ClaimHeld
  <2>2. CASE /\ ~Claim(r) /\ j \in Held(r)
             /\ at'[r] = "writing" /\ j = current'[r] =>
                    \/ FinishRead(r)
                    \/ at[r] = "writing" /\ j = current[r] /\ read'[r] = read[r]
    <3>1. status[j] = "running" /\ (at[r] = "writing" /\ j = current[r] => read[r] = attempts[j])
      BY <2>2 DEF InductiveAlone, ClaimsAreKept, Held
    <3>2. j \in Jobs /\ at[r] \notin {"down", "starting", "polling"}
      BY <1>1, <2>2 DEF Inductive, TypeOK, InHand, Held
    <3>3. ~\E q \in Runners : Claim(q)
      BY <2>2 DEF Alone
    <3>4. status'[j] = "running"
      <4> SUFFICES ASSUME status'[j] # status[j] PROVE FALSE
        BY <3>1
      <4>1. PICK q \in Runners : at[q] = "writing" /\ current[q] = j /\ PutDown(q)
        BY <1>1, <3>1, <3>2, <3>3, StatusMoves DEF Alone
      <4>2. q = r
        BY DEF Alone
      <4>3. j \notin batch[r] /\ batch'[r] = batch[r] /\ current'[r] = NoJob
        BY <1>1, <4>1, <4>2 DEF Inductive, TypeOK, InHand, PutDown
      <4> QED BY <1>2, <4>3, JobAssumption DEF Held
    <3>5. attempts'[j] = attempts[j]
      BY <3>3 DEF Next, Step, Fault, Start, Recover, Dispatch, HandlerReturns, FinishRead,
                  FinishConflict, FinishWrite, Stopped, RecoverFails, FinishFails, Stop, Crash,
                  Tick, Enqueue, rows, vars
    <3>6. FinishRead(r) => read'[r] = attempts[current'[r]]
      BY <1>1 DEF FinishRead, Inductive, TypeOK
    <3> QED BY <2>2, <3>1, <3>4, <3>5, <3>6
  <2> QED BY <1>1, <2>1, <2>2, HeldMoves
<1>3. ClaimsAreKept'
  BY <1>2 DEF ClaimsAreKept, Held
<1> QED BY <1>1, <1>3 DEF InductiveAlone

LEMMA AloneInvariant ==
    ASSUME Alone
    PROVE  Spec => []InductiveAlone
<1>1. Init => InductiveAlone
  BY InitInductive DEF Init, InductiveAlone, ClaimsAreKept
<1>2. InductiveAlone /\ [Next]_vars => InductiveAlone'
  BY AloneInductive
<1> QED BY <1>1, <1>2, PTL DEF Spec

\* Where one server works the file, a job it has claimed stays running until
\* it has finished it.
THEOREM ClaimsAreSafe ==
    ASSUME Alone
    PROVE  Spec => []ClaimsAreKept
<1>1. InductiveAlone => ClaimsAreKept
  BY DEF InductiveAlone
<1> QED BY <1>1, AloneInvariant, PTL

\* Where one server works the file, the statements of jobs.go follow the job
\* machine of states.go, which they never consult.
THEOREM MachineIsFollowed ==
    ASSUME Alone
    PROVE  Spec => JobsFollowTheTable
<1>1. InductiveAlone /\ [Next]_vars =>
        [\A j \in Jobs : status[j] \notin {"absent", status'[j]} =>
            ValidTransition("job", status[j], status'[j])]_vars
  <2> SUFFICES ASSUME InductiveAlone, [Next]_vars, NEW j \in Jobs,
                      status[j] # "absent", status'[j] # status[j]
               PROVE  ValidTransition("job", status[j], status'[j])
    OBVIOUS
  <2>1. CASE status[j] \in {"pending", "retry"} /\ status'[j] = "running"
    BY <2>1 DEF ValidTransition, Transitions
  <2>2. CASE status[j] = "running" /\ status'[j] \in {"succeeded", "failed", "retry"}
    BY <2>2 DEF ValidTransition, Transitions
  <2>3. ASSUME NEW r \in Runners, at[r] = "writing", current[r] = j PROVE status[j] = "running"
    BY <2>3, JobAssumption DEF InductiveAlone, ClaimsAreKept
  <2> QED BY <2>1, <2>2, <2>3, StatusMoves DEF InductiveAlone
<1> QED BY <1>1, AloneInvariant, PTL DEF Spec, JobsFollowTheTable

-----------------------------------------------------------------------------
\* How often a job is tried, with one server

\* A step that counts no attempt and makes no job claimable that was not.
LEMMA NothingPaid ==
    ASSUME Inductive, AttemptsPaidFor, NEW j \in Jobs,
           UNCHANGED <<attempts, faults>>, MayRunAgain(j)' => MayRunAgain(j)
    PROVE  /\ attempts'[j] <= MaxAttempts + faults'
           /\ MayRunAgain(j)' => attempts'[j] < MaxAttempts + faults'
BY DEF AttemptsPaidFor, AttemptsWithinFaults

\* What goes wrong counts no attempt, and pays for one.
LEMMA FaultPays ==
    ASSUME Inductive, AttemptsPaidFor, NEW j \in Jobs, NEW r \in Runners, Fault(r)
    PROVE  attempts'[j] < MaxAttempts + faults'
<1>1. attempts' = attempts /\ faults' = faults + 1
  BY DEF Fault, RecoverFails, FinishFails, Stop, Crash, rows
<1>2. attempts[j] \in Nat /\ faults \in Nat /\ attempts[j] <= MaxAttempts + faults
  BY Numbers DEF Inductive, TypeOK, AttemptsPaidFor, AttemptsWithinFaults
<1> QED BY <1>1, <1>2, Numbers

\* The one server holds nothing when it starts, recovers or polls: whatever is
\* running then is lost.
LEMMA NothingHeld ==
    ASSUME Alone, Inductive, NEW r \in Runners, at[r] \in {"down", "starting", "polling"},
           NEW j \in Jobs, status[j] = "running"
    PROVE  Lost(j)
<1>1. batch[r] = {} /\ current[r] = NoJob /\ j # NoJob
  BY JobAssumption DEF Inductive, InHand
<1>2. \A q \in Runners : q = r
  BY DEF Alone
<1> QED BY <1>1, <1>2 DEF Lost

LEMMA QuietStep ==
    ASSUME Alone, InductiveAlone, NEW r \in Runners, NEW j \in Jobs,
           Step(r), ~Claim(r), ~FinishWrite(r), MayRunAgain(j)'
    PROVE  UNCHANGED <<attempts, faults>> /\ MayRunAgain(j)
<1>1. Inductive /\ ClaimsAreKept
  BY DEF InductiveAlone
<1>2. CASE Start(r)
  <2>1. CASE status[j] = "running"
    BY <1>1, <1>2, <2>1, NothingHeld DEF Start, MayRunAgain, rows
  <2> QED BY <1>2, <2>1 DEF Start, MayRunAgain, Lost, rows
<1>3. CASE Recover(r)
  <2>1. CASE status[j] = "running"
    BY <1>1, <1>3, <2>1, NothingHeld DEF Recover, MayRunAgain
  <2>2. CASE status[j] # "running"
    BY <1>1, <1>3, <2>2 DEF Recover, Stale, MayRunAgain, Lost
  <2> QED BY <2>1, <2>2, <1>3 DEF Recover
<1>4. CASE \E k \in Jobs : Dispatch(r, k)
  <2>1. PICK k \in Jobs : Dispatch(r, k)
    BY <1>4
  <2>2. \A q \in Runners : j \in batch[q] \cup {current[q]} => j \in batch'[q] \cup {current'[q]}
    BY <1>1, <2>1, JobAssumption DEF Dispatch, Inductive, TypeOK, InHand
  <2> QED BY <2>1, <2>2 DEF Dispatch, MayRunAgain, Lost, rows
<1>5. CASE FinishRead(r) \/ \E outcome \in {"nil", "error"} : HandlerReturns(r, outcome)
  BY <1>5 DEF FinishRead, HandlerReturns, MayRunAgain, Lost, rows
<1>6. CASE FinishConflict(r)
  <2>1. current[r] \in Jobs
    BY <1>1, <1>6 DEF FinishConflict, Inductive, InHand
  <2> QED BY <1>1, <1>6, <2>1, JobAssumption DEF FinishConflict, ClaimsAreKept
<1>7. CASE Stopped(r)
  BY <1>7 DEF Alone, Stopped, MayRunAgain, Lost, rows
<1> QED BY <1>2, <1>3, <1>4, <1>5, <1>6, <1>7 DEF Step

LEMMA ClaimPays ==
    ASSUME Alone, Inductive, AttemptsPaidFor, NEW r \in Runners, Claim(r), NEW j \in Jobs
    PROVE  /\ attempts'[j] <= MaxAttempts + faults'
           /\ MayRunAgain(j)' => attempts'[j] < MaxAttempts + faults'
<1>1. PICK claimed \in SUBSET Jobs :
        /\ \A k \in claimed : status[k] \in {"pending", "retry"}
        /\ status' = [k \in Jobs |-> IF k \in claimed THEN "running" ELSE status[k]]
        /\ attempts' = [k \in Jobs |-> IF k \in claimed THEN attempts[k] + 1 ELSE attempts[k]]
        /\ batch' = [batch EXCEPT ![r] = claimed]
        /\ at[r] = "polling" /\ UNCHANGED <<stopping, current, faults>>
  BY ClaimWrites
<1>2. attempts[j] \in Nat /\ faults \in Nat
  BY DEF Inductive, TypeOK
<1>3. CASE j \in claimed
  <2>1. attempts[j] < MaxAttempts + faults
    BY <1>1, <1>3 DEF AttemptsPaidFor, MayRunAgain
  <2>2. ~MayRunAgain(j)'
    <3>1. status'[j] = "running" /\ j \in batch'[r]
      BY <1>1, <1>3 DEF Inductive, TypeOK
    <3>2. ~stopping'[r]
      BY <1>1 DEF Claim
    <3> QED BY <3>1, <3>2 DEF MayRunAgain, Lost
  <2> QED BY <1>1, <1>2, <1>3, <2>1, <2>2, Numbers
<1>4. CASE j \notin claimed
  <2>1. status'[j] = status[j] /\ attempts'[j] = attempts[j]
    BY <1>1, <1>4
  <2>2. MayRunAgain(j)' => MayRunAgain(j)
    BY <1>1, <2>1, NothingHeld DEF MayRunAgain, Lost
  <2> QED BY <1>1, <2>1, <2>2 DEF AttemptsPaidFor, AttemptsWithinFaults
<1> QED BY <1>3, <1>4

\* FinishJob hands a job back only while the attempts it has read, which are
\* those of the claim, are below the limit.
LEMMA FinishPays ==
    ASSUME InductiveAlone, AttemptsPaidFor, NEW r \in Runners, FinishWrite(r), NEW j \in Jobs
    PROVE  /\ attempts'[j] <= MaxAttempts + faults'
           /\ MayRunAgain(j)' => attempts'[j] < MaxAttempts + faults'
<1>1. Inductive /\ ClaimsAreKept /\ UNCHANGED <<attempts, faults>>
  BY DEF InductiveAlone, FinishWrite
<1>2. CASE j = current[r]
  <2>1. read[r] = attempts[j]
    BY <1>1, <1>2, JobAssumption DEF ClaimsAreKept, FinishWrite
  <2>2. status'[j] = NextStatus(result[r], attempts[j])
    BY <1>1, <1>2, <2>1 DEF FinishWrite, Inductive, TypeOK
  <2>3. MayRunAgain(j)' => ~(attempts[j] >= MaxAttempts)
    BY <2>2 DEF MayRunAgain, Lost, NextStatus
  <2>4. attempts[j] \in Nat /\ faults \in Nat /\ attempts[j] <= MaxAttempts + faults
    BY <1>1 DEF Inductive, TypeOK, AttemptsPaidFor, AttemptsWithinFaults
  <2> QED BY <1>1, <2>3, <2>4, Numbers
<1>3. CASE j # current[r]
  <2>1. status'[j] = status[j]
    BY <1>1, <1>3 DEF FinishWrite, Inductive, TypeOK
  <2>2. \A q \in Runners : j \in batch[q] \cup {current[q]} => j \in batch'[q] \cup {current'[q]}
    BY <1>1, <1>3 DEF FinishWrite, PutDown, Inductive, TypeOK
  <2>3. stopping' = stopping
    BY DEF FinishWrite, PutDown
  <2> QED BY <1>1, <2>1, <2>2, <2>3, NothingPaid DEF MayRunAgain, Lost
<1> QED BY <1>2, <1>3

LEMMA PaidForInductive ==
    ASSUME Alone
    PROVE  InductiveAlone /\ AttemptsPaidFor /\ [Next]_vars => AttemptsPaidFor'
<1> SUFFICES ASSUME InductiveAlone, AttemptsPaidFor, [Next]_vars, NEW j \in Jobs
             PROVE  /\ attempts'[j] <= MaxAttempts + faults'
                    /\ MayRunAgain(j)' => attempts'[j] < MaxAttempts + faults'
  BY DEF AttemptsPaidFor, AttemptsWithinFaults
<1>1. Inductive
  BY DEF InductiveAlone
<1>2. ASSUME NEW r \in Runners, Fault(r)
      PROVE  /\ attempts'[j] <= MaxAttempts + faults'
             /\ MayRunAgain(j)' => attempts'[j] < MaxAttempts + faults'
  <2>1. attempts' = attempts /\ faults' = faults + 1
    BY <1>2 DEF Fault, RecoverFails, FinishFails, Stop, Crash, rows
  <2>2. attempts[j] \in Nat /\ faults \in Nat
    BY <1>1 DEF Inductive, TypeOK
  <2> QED BY <1>1, <1>2, <2>1, <2>2, FaultPays, Numbers
<1>3. ASSUME NEW r \in Runners, Step(r)
      PROVE  /\ attempts'[j] <= MaxAttempts + faults'
             /\ MayRunAgain(j)' => attempts'[j] < MaxAttempts + faults'
  <2>1. CASE Claim(r)
    BY <1>1, <2>1, ClaimPays
  <2>2. CASE FinishWrite(r)
    BY <2>2, FinishPays
  <2>3. CASE ~Claim(r) /\ ~FinishWrite(r)
    <3>1. UNCHANGED <<attempts, faults>>
      BY <1>3, <2>3 DEF Step, Start, Recover, Dispatch, HandlerReturns, FinishRead,
                        FinishConflict, Stopped, rows
    <3>2. MayRunAgain(j)' => MayRunAgain(j)
      BY <1>3, <2>3, QuietStep
    <3> QED BY <1>1, <3>1, <3>2, NothingPaid
  <2> QED BY <2>1, <2>2, <2>3
<1>4. CASE \E k \in Jobs, delay \in 0..1 : Enqueue(k, delay)
  <2>1. PICK k \in Jobs, delay \in 0..1 : Enqueue(k, delay)
    BY <1>4
  <2>2. MayRunAgain(j)' => MayRunAgain(j)
    BY <1>1, <2>1 DEF Enqueue, Inductive, TypeOK, MayRunAgain, Lost, runnerVars
  <2> QED BY <1>1, <2>1, <2>2, NothingPaid DEF Enqueue
<1>5. CASE Tick \/ UNCHANGED vars
  BY <1>1, <1>5, NothingPaid DEF Tick, vars, rows, runnerVars, MayRunAgain, Lost
<1> QED BY <1>2, <1>3, <1>4, <1>5 DEF Next

\* Where one server runs, a job is tried beyond max_attempts no more often than
\* the server crashed, was stopped or failed to record an outcome: every extra
\* attempt that RecoverJobs allows is paid for by one fault.
THEOREM AttemptsArePaidFor ==
    ASSUME Alone
    PROVE  Spec => []AttemptsPaidFor
<1>1. Init => AttemptsPaidFor
  BY BoundAssumption DEF Init, AttemptsPaidFor, AttemptsWithinFaults
<1>2. InductiveAlone /\ AttemptsPaidFor /\ [Next]_vars => AttemptsPaidFor'
  BY PaidForInductive
<1> QED BY <1>1, <1>2, AloneInvariant, PTL DEF Spec

\* Where nothing fails besides, retries are bounded as the README promises:
\* crashes, stops and failed writes are the only way past the limit.
THEOREM RetriesAreBounded ==
    ASSUME Alone, MaxFaults = 0
    PROVE  Spec => []AttemptsBounded
<1>1. AttemptsPaidFor /\ Inductive => AttemptsBounded
  <2> SUFFICES ASSUME AttemptsPaidFor, Inductive, NEW j \in Jobs PROVE attempts[j] <= MaxAttempts
    BY DEF AttemptsBounded
  <2>1. faults = 0 /\ attempts[j] <= MaxAttempts + faults
    BY DEF Inductive, TypeOK, AttemptsPaidFor, AttemptsWithinFaults
  <2> QED BY <2>1, Numbers
<1> QED BY <1>1, AttemptsArePaidFor, InductiveInvariant, PTL
=============================================================================
