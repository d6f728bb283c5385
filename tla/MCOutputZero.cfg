CONSTANTS
    stretched = stretched
    tiled = tiled
    NULL = NULL
    Configs = {stretched, tiled}
    Modes <- MCModes
    Sizes <- MCSizesOrZero
    Scales <- MCScales
    Keys <- MCKeys
    Elsewhere <- MCElsewhere
    RenderMayFail = FALSE
    MaxEvents = 2

SPECIFICATION Spec

INVARIANTS
    CommitsAreAcked
