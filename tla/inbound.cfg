\* Two messages through Evolution; any two steps may fail, or the process may
\* restart, or a night may come.
SPECIFICATION FairSpec
\* Once every message is settled and nothing more arrives, the system rests.
CHECK_DEADLOCK FALSE
CONSTANTS
    Msgs = {m1, m2}
    NoMsg = NoMsg
    Loops = {l1, l2}
    Channel = "evolution"
    Batch = {}
    Lead = m1
    MayFail = {"begin", "model", "mark", "done", "failed", "xadd", "load", "ack", "restart", "night"}
    MaxFaults = 2
INVARIANTS
    OneBurstAtATime
    NothingStranded
    DoneIsHandled
PROPERTY FailedIsRetried
