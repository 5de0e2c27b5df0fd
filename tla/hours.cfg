\* One client with one session and two requests at a time; a request may die.
SPECIFICATION FairSpec
CONSTANTS
    Sessions = {s1}
    Requests = {r1, r2}
    TicksPerMinute = 2
    MaxNow = 2
    Starts = {0, 1}
    Ends = {2}
    Credits <- MCCredits
    Adjusts <- MCAdjusts
    MaxElapsed = 9
    MaxOps = 2
    MaxFaults = 1
CHECK_DEADLOCK FALSE
INVARIANTS
    NothingLost
    ElapsedIsRunningTime
PROPERTIES
    ImplementsAccount
    DueSessionEnds
