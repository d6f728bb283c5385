SPECIFICATION Spec
CONSTANTS
    Q16 = 4
    png = png   svg = svg   red = red   blue = blue   NULL = NULL
    c1 = c1     c2 = c2     c3 = c3     c4 = c4       c5 = c5
    Images = {png, svg}
    Colors = {red, blue}
    Size <- MCSize
    Alpha = {png}
    Scalable = {svg}
    Configs <- MCConfigs
    Look <- MCLook
    Sizes <- MCSizes
    Buffers = {b1, b2, b3, b4, b5}
SYMMETRY BufferSymmetry
INVARIANTS
    TypeOK
    RefCountExact
    KeysAreUnique
    BuffersShowTheirConfigs
PROPERTIES
    RedrawReusesBuffer
