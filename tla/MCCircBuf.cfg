CONSTANTS
    Items = {x1, x2}
    Junk = Junk
    Sizes = {1, 2, 3, 4}
    ElemSizes = {0, 2}
    MaxBatch = 3
    FullBatch = FALSE
    WordBits = 5
    Unbounded = Unbounded
SPECIFICATION BufSpec
INVARIANTS TypeOK RunsFit PoppedIntact NeverSamePlace
PROPERTY ImplementsFifo
SYMMETRY Swapped
