\* A pool of one, two conversations, two processes, two requests.
SPECIFICATION FairSpec
CONSTANTS
    Convs = {c1, c2}
    Instances = {i1, i2}
    Requests = {r1, r2}
    MaxLive = 1
    MaxPrompts = 3
    MaxCrashes = 1
    None = None
CHECK_DEADLOCK FALSE
INVARIANTS
    WithinLimit
    NoOrphan
    NoSilentLoss
PROPERTIES
    DeadSessionSettles
