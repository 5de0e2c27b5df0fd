\* Every call of the model fails.
SPECIFICATION FairSpec
\* Once every message is settled and nothing more arrives, the system rests.
CHECK_DEADLOCK FALSE
CONSTANTS
    Msgs = {m1, m2}
    NoMsg = NoMsg
    Loops = {l1, l2}
    Channel = "evolution"
    Batch = {}
    Lead = m1
    MayFail = {"model"}
    MaxFaults = 3
INVARIANT ThirdFailureIsTold
