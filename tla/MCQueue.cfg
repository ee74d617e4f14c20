CONSTANTS
    Items = {x1, x2}
    Addrs = {a1, a2, a3, a4}
    NULL = NULL
    Junk = Junk
    MaxBatch = 0
    Unbounded = Unbounded
SPECIFICATION Spec
INVARIANTS TypeOK ListIntact TailIsLast ForeachInOrder DestroyReleasesAll
PROPERTY ImplementsFifo
