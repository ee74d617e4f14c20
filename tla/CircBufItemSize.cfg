CONSTANTS
    Items = {x1, x2}
    Junk = Junk
    Sizes = {4}
    ElemSizes = {3}
    MaxBatch = 3
    FullBatch = FALSE
    WordBits = 5
    Unbounded = Unbounded
SPECIFICATION Spec
PROPERTY PushedIsCounted
CHECK_DEADLOCK FALSE
