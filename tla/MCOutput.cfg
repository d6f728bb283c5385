CONSTANTS
    stretched = stretched
    tiled = tiled
    NULL = NULL
    Configs = {stretched, tiled}
    Modes <- MCModes
    Sizes <- MCSizes
    Scales <- MCScales
    Keys <- MCKeys
    Elsewhere <- MCElsewhere
    RenderMayFail = TRUE
    MaxEvents = 3

SPECIFICATION FairSpec

INVARIANTS
    TypeOK
    BuffersAreCurrent
    ScreenIsCurrent
    CommitsAreAcked

PROPERTIES
    OutputComesUp
