\* One key: two POSTs and two webhook deliveries at the same time; something
\* may go wrong twice.
SPECIFICATION FairSpec
CONSTANTS
    Keys = {k}
    Requests = {r1, r2}
    Hooks = {h1, h2}
    MayFail = {"answer", "insert", "apply", "done", "crash"}
    MaxFaults = 2
CHECK_DEADLOCK FALSE
INVARIANTS
    RowHasTransfer
    RowTellsTheTruth
PROPERTIES
    ImplementsWithdrawal
    PayoutIsSettled
