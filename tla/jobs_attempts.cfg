\* One fault takes a job over its limit.
CONSTANTS
    NoJob = NoJob
    Jobs = {j1}
    Runners = {r1}
    Batch = 1
    MaxAttempts = 2
    StaleAge = 2
    MaxOverdue = 1
    MaxDelay = 4
    MaxClaims = 4
    MaxFaults = 1
SPECIFICATION Spec
INVARIANTS AttemptsBounded
