-------------------------------- MODULE Jobs --------------------------------
(***************************************************************************)
(* internal/worker (Runner) over internal/storage/sqlite/jobs.go: jobs are *)
(* claimed in batches, handled one after the other, finished, retried with *)
(* a growing delay, and recovered when a runner starts.  A runner is the   *)
(* one goroutine of a server process; the process may crash or be told to  *)
(* stop, and be started again.                                             *)
(*                                                                         *)
(* Times are relative to now: due[j] is available_at - now, age[j] is      *)
(* now - locked_at, and Tick moves both.  due stops at -MaxOverdue, where  *)
(* the order of two overdue jobs is forgotten, and age at StaleAge.        *)
(***************************************************************************)
EXTENDS Domain, FiniteSets, Integers

CONSTANTS
    Jobs, Runners,
    NoJob,
    Batch,          \* WORKER_BATCH
    MaxAttempts,    \* max_attempts of every job
    StaleAge,       \* the five minutes of Start, in ticks
    MaxOverdue,     \* bound: how long a job's lateness is told apart
    MaxDelay,       \* bound: the longest backoff that is told apart
    MaxClaims,      \* bound: a job claimed this often is not claimed again
    MaxFaults       \* bound: crashes, stops and failed writes of a behaviour

ASSUME JobAssumption == NoJob \notin Jobs
ASSUME BoundAssumption ==
    /\ {Batch, MaxAttempts, StaleAge, MaxDelay, MaxClaims} \subseteq Nat \ {0}
    /\ {MaxOverdue, MaxFaults} \subseteq Nat

VARIABLES
    \* worker_jobs
    status, attempts, due, age,
    \* the runners
    at,         \* where the goroutine stands
    stopping,   \* its context is canceled
    batch,      \* claimed jobs that it has not dispatched yet
    current,    \* the job in hand
    result,     \* what the handler returned
    read,       \* the attempts FinishJob has read
    \* history and bounds
    handledOK,  \* the jobs whose handler has returned nil
    faults

rows == <<status, attempts, due, age>>
runnerVars == <<at, stopping, batch, current, result, read>>
vars == <<rows, runnerVars, handledOK, faults>>

JobStates == {"absent", "pending", "running", "retry", "succeeded", "failed"}
Points == {"down", "starting", "polling", "dispatching", "handling",
           "finishing", "writing"}

\* EnqueueJob, by whoever is going to: nothing in the repository calls it yet.
Enqueue(j, delay) ==
    /\ status[j] = "absent"
    /\ status' = [status EXCEPT ![j] = "pending"]
    /\ due' = [due EXCEPT ![j] = delay]
    /\ UNCHANGED <<attempts, age, runnerVars, handledOK, faults>>

-----------------------------------------------------------------------------
\* Runner.Start

Start(r) ==
    /\ at[r] = "down"
    /\ at' = [at EXCEPT ![r] = "starting"]
    /\ stopping' = [stopping EXCEPT ![r] = FALSE]
    /\ UNCHANGED <<rows, batch, current, result, read, handledOK, faults>>

\* RecoverJobs, once, with the limit of attempts nowhere in its WHERE clause.
Stale == {j \in Jobs : status[j] = "running" /\ age[j] >= StaleAge}

Recover(r) ==
    /\ at[r] = "starting"
    /\ ~stopping[r]
    /\ status' = [j \in Jobs |-> IF j \in Stale THEN "retry" ELSE status[j]]
    /\ due' = [j \in Jobs |-> IF j \in Stale THEN 0 ELSE due[j]]
    /\ age' = [j \in Jobs |-> IF j \in Stale THEN 0 ELSE age[j]]
    /\ at' = [at EXCEPT ![r] = "polling"]
    /\ UNCHANGED <<attempts, stopping, batch, current, result, read, handledOK, faults>>

\* A recovery that fails is logged, and the runner polls all the same.
RecoverFails(r) ==
    /\ at[r] = "starting"
    /\ faults < MaxFaults
    /\ faults' = faults + 1
    /\ at' = [at EXCEPT ![r] = "polling"]
    /\ UNCHANGED <<rows, stopping, batch, current, result, read, handledOK>>

-----------------------------------------------------------------------------
\* Runner.RunOnce

\* Mutant: a job that failed once is never looked at again.
ReadyOnce == {j \in Jobs : status[j] = "pending" /\ due[j] <= 0}

\* ClaimJobs, one transaction: the earliest jobs that are due, up to Batch.
Ready == {j \in Jobs : status[j] \in {"pending", "retry"} /\ due[j] <= 0}

Earliest(claimed) ==
    /\ Cardinality(claimed) <= Batch
    /\ Cardinality(claimed) = Batch \/ claimed = Ready
    /\ \A j \in claimed, k \in Ready \ claimed : due[j] <= due[k]

Counted(claimed) == [j \in Jobs |-> IF j \in claimed THEN attempts[j] + 1 ELSE attempts[j]]

Claim(r) ==
    /\ at[r] = "polling"
    /\ ~stopping[r]
    /\ \E claimed \in SUBSET Ready :
        /\ claimed # {}
        /\ Earliest(claimed)
        /\ \A j \in claimed : attempts[j] < MaxClaims
        /\ status' = [j \in Jobs |-> IF j \in claimed THEN "running" ELSE status[j]]
        /\ attempts' = Counted(claimed)
        /\ age' = [j \in Jobs |-> IF j \in claimed THEN 0 ELSE age[j]]
        /\ batch' = [batch EXCEPT ![r] = claimed]
    /\ at' = [at EXCEPT ![r] = "dispatching"]
    /\ UNCHANGED <<due, stopping, current, result, read, handledOK, faults>>

\* Mutant: the loop comes back to a job it has dispatched.
DispatchAgain(r, j) ==
    /\ at[r] = "dispatching"
    /\ ~stopping[r]
    /\ j \in batch[r]
    /\ current' = [current EXCEPT ![r] = j]
    /\ at' = [at EXCEPT ![r] = "handling"]
    /\ UNCHANGED <<rows, stopping, batch, result, read, handledOK, faults>>

\* The loop over the batch looks at the context before each job.
Dispatch(r, j) ==
    /\ at[r] = "dispatching"
    /\ ~stopping[r]
    /\ j \in batch[r]
    /\ batch' = [batch EXCEPT ![r] = @ \ {j}]
    /\ current' = [current EXCEPT ![r] = j]
    /\ at' = [at EXCEPT ![r] = "handling"]
    /\ UNCHANGED <<rows, stopping, result, read, handledOK, faults>>

\* The handler returns, at the latest when its thirty seconds are over; an
\* unknown kind counts as an error.
HandlerReturns(r, outcome) ==
    /\ at[r] = "handling"
    /\ result' = [result EXCEPT ![r] = outcome]
    /\ handledOK' = IF outcome = "nil" THEN handledOK \cup {current[r]} ELSE handledOK
    /\ at' = [at EXCEPT ![r] = "finishing"]
    /\ UNCHANGED <<rows, stopping, batch, current, read, faults>>

\* Back to the loop, with nothing in hand.
PutDown(r) ==
    /\ at' = [at EXCEPT ![r] = IF batch[r] = {} THEN "polling" ELSE "dispatching"]
    /\ current' = [current EXCEPT ![r] = NoJob]
    /\ result' = [result EXCEPT ![r] = "nil"]
    /\ read' = [read EXCEPT ![r] = 0]
    /\ UNCHANGED <<stopping, batch>>

\* FinishJob: a SELECT that wants the job to be running, ...
FinishRead(r) ==
    /\ at[r] = "finishing"
    /\ ~stopping[r]
    /\ status[current[r]] = "running"
    /\ read' = [read EXCEPT ![r] = attempts[current[r]]]
    /\ at' = [at EXCEPT ![r] = "writing"]
    /\ UNCHANGED <<rows, stopping, batch, current, result, handledOK, faults>>

FinishConflict(r) ==
    /\ at[r] = "finishing"
    /\ ~stopping[r]
    /\ status[current[r]] # "running"
    /\ PutDown(r)
    /\ UNCHANGED <<rows, handledOK, faults>>

\* ... then an UPDATE by id alone.
Backoff(n) == IF n * n > MaxDelay THEN MaxDelay ELSE n * n

\* Mutants: the last attempt is never made, or one too many; a retry goes back
\* to pending; a job that is given up gets a status of its own.
NextStatusLate(outcome, n) ==
    IF outcome = "nil" THEN "succeeded" ELSE IF n > MaxAttempts THEN "failed" ELSE "retry"
NextStatusEarly(outcome, n) ==
    IF outcome = "nil" THEN "succeeded" ELSE IF n + 1 >= MaxAttempts THEN "failed" ELSE "retry"
NextStatusPending(outcome, n) ==
    IF outcome = "nil" THEN "succeeded" ELSE IF n >= MaxAttempts THEN "failed" ELSE "pending"
NextStatusDead(outcome, n) ==
    IF outcome = "nil" THEN "succeeded" ELSE IF n >= MaxAttempts THEN "dead" ELSE "retry"

NextStatus(outcome, n) ==
    IF outcome = "nil" THEN "succeeded" ELSE IF n >= MaxAttempts THEN "failed" ELSE "retry"

FinishWrite(r) ==
    /\ at[r] = "writing"
    /\ ~stopping[r]
    /\ status' = [status EXCEPT ![current[r]] = NextStatus(result[r], read[r])]
    /\ due' = [due EXCEPT ![current[r]] = IF result[r] = "nil" THEN @ ELSE Backoff(read[r])]
    /\ age' = [age EXCEPT ![current[r]] = 0]
    /\ PutDown(r)
    /\ UNCHANGED <<attempts, handledOK, faults>>

\* Either statement may fail; the error is logged and the loop goes on.
FinishFails(r) ==
    /\ at[r] \in {"finishing", "writing"}
    /\ ~stopping[r]
    /\ faults < MaxFaults
    /\ faults' = faults + 1
    /\ PutDown(r)
    /\ UNCHANGED <<rows, handledOK>>

-----------------------------------------------------------------------------
\* The server process

\* SIGTERM cancels the context the runner and its handlers were given.
Stop(r) ==
    /\ at[r] # "down"
    /\ ~stopping[r]
    /\ faults < MaxFaults
    /\ faults' = faults + 1
    /\ stopping' = [stopping EXCEPT ![r] = TRUE]
    /\ UNCHANGED <<rows, at, batch, current, result, read, handledOK>>

GoDown(r) ==
    /\ at' = [at EXCEPT ![r] = "down"]
    /\ stopping' = [stopping EXCEPT ![r] = FALSE]
    /\ batch' = [batch EXCEPT ![r] = {}]
    /\ current' = [current EXCEPT ![r] = NoJob]
    /\ result' = [result EXCEPT ![r] = "nil"]
    /\ read' = [read EXCEPT ![r] = 0]

\* With its context canceled every statement fails, RunOnce returns at the next
\* job and the select of Start ends the goroutine.
Stopped(r) ==
    /\ stopping[r]
    /\ at[r] \notin {"down", "handling"}
    /\ GoDown(r)
    /\ UNCHANGED <<rows, handledOK, faults>>

Crash(r) ==
    /\ at[r] # "down"
    /\ faults < MaxFaults
    /\ faults' = faults + 1
    /\ GoDown(r)
    /\ UNCHANGED <<rows, handledOK>>

Down(n, floor) == IF n > floor THEN n - 1 ELSE n

Tick ==
    /\ due' = [j \in Jobs |-> IF status[j] \in {"pending", "retry"}
                              THEN Down(due[j], -MaxOverdue) ELSE due[j]]
    /\ age' = [j \in Jobs |-> IF status[j] = "running" /\ age[j] < StaleAge
                              THEN age[j] + 1 ELSE age[j]]
    /\ UNCHANGED <<status, attempts, runnerVars, handledOK, faults>>

-----------------------------------------------------------------------------
Init ==
    /\ status = [j \in Jobs |-> "absent"]
    /\ attempts = [j \in Jobs |-> 0]
    /\ due = [j \in Jobs |-> 0]
    /\ age = [j \in Jobs |-> 0]
    /\ at = [r \in Runners |-> "down"]
    /\ stopping = [r \in Runners |-> FALSE]
    /\ batch = [r \in Runners |-> {}]
    /\ current = [r \in Runners |-> NoJob]
    /\ result = [r \in Runners |-> "nil"]
    /\ read = [r \in Runners |-> 0]
    /\ handledOK = {}
    /\ faults = 0

Step(r) ==
    \/ Start(r) \/ Recover(r)
    \/ Claim(r)
    \/ \E j \in Jobs : Dispatch(r, j)
    \/ \E outcome \in {"nil", "error"} : HandlerReturns(r, outcome)
    \/ FinishRead(r) \/ FinishConflict(r) \/ FinishWrite(r)
    \/ Stopped(r)

Fault(r) == RecoverFails(r) \/ FinishFails(r) \/ Stop(r) \/ Crash(r)

Next ==
    \/ \E j \in Jobs, delay \in 0..1 : Enqueue(j, delay)
    \/ \E r \in Runners : Step(r) \/ Fault(r)
    \/ Tick

Spec == Init /\ [][Next]_vars

\* The goroutine is scheduled and its ticker fires; time passes; a server
\* that is down is started again.  Nothing makes a fault happen.
FairSpec == Spec /\ WF_vars(Tick) /\ \A r \in Runners : WF_vars(Step(r))

-----------------------------------------------------------------------------
\* Properties

\* Jobs and runners keep to the states jobs.go and runner.go give them.
TypeOK ==
    /\ status \in [Jobs -> JobStates]
    /\ attempts \in [Jobs -> Nat]
    /\ due \in [Jobs -> Int]
    /\ age \in [Jobs -> 0..StaleAge]
    /\ at \in [Runners -> Points]
    /\ stopping \in [Runners -> BOOLEAN]
    /\ batch \in [Runners -> SUBSET Jobs]
    /\ current \in [Runners -> Jobs \cup {NoJob}]
    /\ result \in [Runners -> {"nil", "error"}]
    /\ read \in [Runners -> Nat]
    /\ handledOK \subseteq Jobs
    /\ faults \in 0..MaxFaults

\* What a runner has claimed stays running until that runner finishes it:
\* nobody else takes it, and FinishJob's unguarded UPDATE meets the claim its
\* SELECT saw.  (One runner: RecoverJobs is not called beside a live one.)
ClaimsAreKept ==
    \A r \in Runners : \A j \in batch[r] \cup ({current[r]} \ {NoJob}) :
        /\ status[j] = "running"
        /\ at[r] = "writing" /\ j = current[r] => read[r] = attempts[j]

\* A job is recorded as succeeded only if its handler returned nil, and as
\* failed only once its attempts are used up.
OutcomesAreEarned ==
    \A j \in Jobs :
        /\ status[j] = "succeeded" => j \in handledOK
        /\ status[j] = "failed" => attempts[j] >= MaxAttempts

\* jobs.go never asks ValidateTransition; its statements follow the job
\* machine of states.go all the same, and a terminal state is never left.
JobsFollowTheTable ==
    [][\A j \in Jobs : status[j] \notin {"absent", status'[j]} =>
            ValidTransition("job", status[j], status'[j])]_vars

\* Where nothing fails every job that was enqueued ends: its retries back off
\* and are limited, and a job that keeps failing does not starve the others.
EveryJobSettles ==
    \A j \in Jobs : status[j] = "pending" ~> status[j] \in TerminalStates["job"]

\* README: "bounded retries".
AttemptsBounded == \A j \in Jobs : attempts[j] <= MaxAttempts

\* What is true of it where one server runs: a job is tried beyond its limit no
\* more often than something went wrong, be it a crash, a stop in the middle of
\* a batch or a FinishJob that failed.
AttemptsWithinFaults == \A j \in Jobs : attempts[j] <= MaxAttempts + faults

\* README: jobs left running "beyond the stale threshold are returned to
\* retry after restart".
InterruptedReturn ==
    \A j \in Jobs :
        (status[j] = "running" /\ age[j] = StaleAge
            /\ \A r \in Runners : j \notin batch[r] \cup {current[r]})
        ~> status[j] # "running"

-----------------------------------------------------------------------------
\* The inductive invariant behind the safety properties

\* Where a runner stands tells what it has in hand.
InHand ==
    \A r \in Runners :
        /\ at[r] \in {"down", "starting", "polling"} => batch[r] = {} /\ current[r] = NoJob
        /\ at[r] = "dispatching" => current[r] = NoJob
        /\ at[r] \in {"handling", "finishing", "writing"} => current[r] \in Jobs \ batch[r]

\* What FinishJob is about to write is earned, also when another server has
\* claimed the job meanwhile: attempts are never taken back.
AboutToFinish ==
    \A r \in Runners :
        /\ at[r] \in {"finishing", "writing"} /\ result[r] = "nil" => current[r] \in handledOK
        /\ at[r] = "writing" => read[r] <= attempts[current[r]]

\* A runner never mixes up its batch and the job in hand, and what FinishJob is
\* about to write stays earned while another server recovers and claims the
\* job: it is why OutcomesAreEarned survives what ClaimsAreKept does not.
Inductive ==
    /\ TypeOK
    /\ InHand
    /\ AboutToFinish
    /\ OutcomesAreEarned

\* A running job that no runner is going to finish: it was left behind, or its
\* runner is stopping.
Lost(j) ==
    /\ status[j] = "running"
    /\ \A r \in Runners : j \in batch[r] \cup {current[r]} => stopping[r]

\* A job that is claimed again, at once or after a recovery.
MayRunAgain(j) == status[j] \in {"absent", "pending", "retry"} \/ Lost(j)

\* Why AttemptsWithinFaults is kept: a job that may be claimed again has an
\* attempt left, or a crash, a stop or a failed write has paid for one.
AttemptsPaidFor ==
    /\ AttemptsWithinFaults
    /\ \A j \in Jobs : MayRunAgain(j) => attempts[j] < MaxAttempts + faults
=============================================================================
