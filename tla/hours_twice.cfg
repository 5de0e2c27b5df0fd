\* Two reads of one overdue session.
SPECIFICATION Spec
CONSTANTS
    Sessions = {s1}
    Requests = {r1, r2}
    TicksPerMinute = 2
    MaxNow = 3
    Starts = {0, 1}
    Ends = {2}
    Credits = {2}
    Adjusts = {1}
    MaxElapsed = 9
    MaxOps = 1
    MaxFaults = 0
CHECK_DEADLOCK FALSE
INVARIANTS
    DebitedOnce
