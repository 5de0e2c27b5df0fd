\* Two replicas with a worker each, executing one job; something may go wrong
\* once, and a replica is shut down once.
SPECIFICATION FairSpec
CONSTANTS
    Jobs = {j1}
    NoJob = NoJob
    Workers = {w1, w2}
    NoWorker = NoWorker
    Replicas = {{w1}, {w2}}
    Runs = {r1, r2, r3}
    NoRun = NoRun
    Timeout = 1
    MaxRetries = 2
    Backoff <- MCBackoff
    Spent <- MCSpent
    TxTime = 1
    Window = 5
    DrainTime = 1
    MayFail = {"tx", "commit", "panic", "finish", "crash"}
    MaxFaults = 1
    MaxShutdowns = 1
INVARIANTS
    OneLiveExecution
    RunningRowIsBacked
PROPERTY JobIsExecutedAgain
