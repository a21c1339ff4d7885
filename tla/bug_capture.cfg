SPECIFICATION Spec
CONSTANTS
    x1 = x1
    x2 = x2
    x3 = x3
    y1 = y1
    y2 = y2
    z1 = z1
    Sizes <- SameNames
    Uses = {}
SYMMETRY NameSymmetry
CHECK_DEADLOCK FALSE
INVARIANT
    MeansWhatItSays
