SPECIFICATION FairSpec
CONSTANTS
    Requests = {r1, r2}
    Names = {lm}
    NameOf <- MCNameOf
    MaxStarts = 2
    MaxCalls = 3
    lm = lm
INVARIANTS
    TypeOK
    ServesSyncedCache
    AnswersAreTrue
    OneStartNeverPanics
PROPERTIES
    StopDrains
    ListenFailureEndsStart
CHECK_DEADLOCK FALSE
