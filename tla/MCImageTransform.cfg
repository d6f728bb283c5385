SPECIFICATION Spec
CONSTANTS
    Q16 = 16
    MaxSide = 5
    None = None
INVARIANTS
    CoveredOutputsHaveNoGap
    AspectIsKept
    OffsetIsAccurate
CHECK_DEADLOCK FALSE
