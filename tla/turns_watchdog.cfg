\* Two turns, and no question.
SPECIFICATION Spec
CONSTANTS
    Questions = {}
    MaxPrompts = 2
    MaxStops = 1
    None = None
CHECK_DEADLOCK FALSE
INVARIANTS
    OldWatchdogSpares
