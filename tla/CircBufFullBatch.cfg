CONSTANTS
    Items = {x1, x2}
    Junk = Junk
    Sizes = {4}
    ElemSizes = {4}
    MaxBatch = 4
    FullBatch = TRUE
    WordBits = 5
    Unbounded = Unbounded
SPECIFICATION Spec
PROPERTY PushedIsCounted
CHECK_DEADLOCK FALSE
