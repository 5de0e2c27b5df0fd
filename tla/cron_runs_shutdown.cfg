\* A replica is shut down while it executes a job.
SPECIFICATION Spec
CONSTANTS
    Jobs = {j1}
    NoJob = NoJob
    Workers = {w1, w2}
    NoWorker = NoWorker
    Replicas = {{w1}, {w2}}
    Runs = {r1, r2, r3}
    NoRun = NoRun
    Timeout = 1
    MaxRetries = 2
    Backoff <- MCBackoff
    Spent <- MCSpent
    TxTime = 1
    Window = 5
    DrainTime = 1
    MayFail = {}
    MaxFaults = 0
    MaxShutdowns = 1
INVARIANT ShutdownLetsRunsComplete
