\* A schedule that never matches is accepted.
SPECIFICATION Spec
CONSTANTS
    Jobs = {j1, j2}
    Replicas = {a, b}
    NoReplica = NoReplica
    Schedules = {s1, s2}
    NoSchedule = NoSchedule
    Unsatisfiable = {s2}
    Limit = 1
    MayFail = {"tick"}
CHECK_DEADLOCK FALSE
PROPERTY TickMovesOn
