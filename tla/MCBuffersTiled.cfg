SPECIFICATION Spec
CONSTANTS
    Q16 = 4
    png = png   svg = svg   red = red   blue = blue   NULL = NULL
    c1 = c1     c2 = c2     c3 = c3     c4 = c4       c5 = c5
    Images = {png, svg}
    Colors = {red, blue}
    Size <- MCSize
    Alpha = {}
    Scalable = {}
    Configs <- TiledConfigs
    Look <- TiledLook
    Sizes <- MCSizes
    Buffers = {b1, b2, b3}
INVARIANT
    BuffersMatchTheirOutput
