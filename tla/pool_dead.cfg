\* One conversation whose process ends while it is put into the pool.
SPECIFICATION Spec
CONSTANTS
    Convs = {c1}
    Instances = {i1, i2}
    Requests = {r1}
    MaxLive = 1
    MaxPrompts = 2
    MaxCrashes = 1
    None = None
CHECK_DEADLOCK FALSE
INVARIANTS
    DeadIsRemoved
