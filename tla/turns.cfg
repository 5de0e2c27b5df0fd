\* Two prompts and two questions of one session.
SPECIFICATION FairSpec
CONSTANTS
    Questions = {q1, q2}
    MaxPrompts = 2
    MaxStops = 1
    None = None
CHECK_DEADLOCK FALSE
INVARIANTS
    RunningIsWatched
    AnsweredOnce
    QueueHasTurn
PROPERTIES
    TurnsEnd
