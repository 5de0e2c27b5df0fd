\* A burst of two messages in the quiet hours, no failure and no restart.
SPECIFICATION FairSpec
\* Once every message is settled and nothing more arrives, the system rests.
CHECK_DEADLOCK FALSE
CONSTANTS
    Msgs = {m1, m2}
    NoMsg = NoMsg
    Loops = {l1, l2}
    Channel = "evolution"
    Batch = {}
    Lead = m1
    MayFail = {"night"}
    MaxFaults = 1
INVARIANT PendingIsInMemory
