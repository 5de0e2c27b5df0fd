\* Two messages of the official number in one notification, the first fails once.
SPECIFICATION FairSpec
\* Once every message is settled and nothing more arrives, the system rests.
CHECK_DEADLOCK FALSE
CONSTANTS
    Msgs = {m1, m2}
    NoMsg = NoMsg
    Loops = {l1, l2}
    Channel = "whatsapp"
    Batch = {m1, m2}
    Lead = m1
    MayFail = {"model"}
    MaxFaults = 1
INVARIANT DoneIsHandled
