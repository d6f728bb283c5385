CONSTANTS
    FailuresHappen = TRUE
    MaxEvents = 2
    MaxMessages = 2
SPECIFICATION FairSpec
CHECK_DEADLOCK FALSE
INVARIANTS
    TypeOK
    ReadsAreMatched
    SleepsWithNothingToDo
PROPERTIES
    ChangesAreShown
    ComesToRest
    LeavesWithCompositor
    LeavesOnReload
