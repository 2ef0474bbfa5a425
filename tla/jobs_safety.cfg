\* Two jobs, batches of two, and two faults.
CONSTANTS
    NoJob = NoJob
    Jobs = {j1, j2}
    Runners = {r1}
    Batch = 2
    MaxAttempts = 2
    StaleAge = 2
    MaxOverdue = 1
    MaxDelay = 4
    MaxClaims = 5
    MaxFaults = 2
SPECIFICATION Spec
SYMMETRY Alike
INVARIANTS Inductive ClaimsAreKept AttemptsPaidFor
PROPERTIES JobsFollowTheTable
