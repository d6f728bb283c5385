CONSTANTS
    Inputs <- MCInputs
    NULL = NULL
    ExitOnReload = TRUE
    AllocMayFail = TRUE
SPECIFICATION Spec
INVARIANTS
    IntactIsUnderstood
    CutIsNoticed
    ErrorsAreExact
    BufferIsIntact
PROPERTIES
    EveryRoundAdvances
