SPECIFICATION LogSpec
CONSTANTS
    g1 = g1
    g2 = g2
    g3 = g3
    Callers <- ThreeCallers
    Interval = 2
    MaxClock = 7
SYMMETRY AlikeCallers
PROPERTIES LinesAreSpaced SkipsAreJustified
