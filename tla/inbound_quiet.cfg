\* The official number: a held message, no failure.
SPECIFICATION FairSpec
\* Once every message is settled and nothing more arrives, the system rests.
CHECK_DEADLOCK FALSE
CONSTANTS
    Msgs = {m1, m2}
    NoMsg = NoMsg
    Loops = {l1, l2}
    Channel = "whatsapp"
    Batch = {}
    Lead = m1
    MayFail = {"night"}
    MaxFaults = 1
PROPERTY HeldIsAnswered
