SPECIFICATION Spec
CONSTANTS
    A = A   B = B   idA = idA
    tile = tile   left = left   middle = middle
    Outputs = {A, B}
    Called <- MCCalled
    Workspaces = {w1, w2}
    Colors = {red, blue}
    Images = {png}
    Modes = {tile}
    Positions = {left, middle}
    PositionOf <- MCPositionOf
    Unset = Unset
    All = All
    MaxFlags = 3
INVARIANT
    SelectionsAreAccepted
CHECK_DEADLOCK FALSE
