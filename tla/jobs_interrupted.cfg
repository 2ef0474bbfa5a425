\* A restart within the threshold strands the job.
CONSTANTS
    NoJob = NoJob
    Jobs = {j1}
    Runners = {r1}
    Batch = 1
    MaxAttempts = 2
    StaleAge = 2
    MaxOverdue = 1
    MaxDelay = 4
    MaxClaims = 3
    MaxFaults = 1
SPECIFICATION FairSpec
PROPERTIES InterruptedReturn
