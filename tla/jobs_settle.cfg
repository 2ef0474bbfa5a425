\* Two servers on one database file, and no fault: the second may recover a job
\* that the first still handles.  Batches of one: of two jobs that are due the
\* LIMIT leaves one behind.
CONSTANTS
    NoJob = NoJob
    Jobs = {j1, j2}
    Runners = {r1, r2}
    Batch = 1
    MaxAttempts = 2
    StaleAge = 2
    MaxOverdue = 1
    MaxDelay = 4
    MaxClaims = 4
    MaxFaults = 0
SPECIFICATION FairSpec
INVARIANTS OutcomesAreEarned
PROPERTIES EveryJobSettles
