CONSTANTS
    stretched = stretched
    tiled = tiled
    NULL = NULL
    Configs = {tiled}
    Modes <- MCModes
    Sizes <- MCSizes
    Scales <- MCScales
    Keys <- MCKeys
    Elsewhere = {}
    RenderMayFail = FALSE
    MaxEvents = 1

SPECIFICATION Spec

INVARIANTS
    BufferIsRotated
