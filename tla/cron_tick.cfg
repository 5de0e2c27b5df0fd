\* Two replicas tick, one job at a time, while two jobs are edited; all of them
\* may be deleted, after which nothing happens any more.
SPECIFICATION FairSpec
CONSTANTS
    Jobs = {j1, j2}
    Replicas = {a, b}
    NoReplica = NoReplica
    Schedules = {s1, s2}
    NoSchedule = NoSchedule
    Unsatisfiable = {s2}
    Limit = 1
    MayFail = {"tick", "commit"}
CHECK_DEADLOCK FALSE
INVARIANTS
    FiredOncePerInstant
PROPERTIES
    TickFollowsSchedule
    PausedIsNotTaken
    DueJobIsFired
