CONSTANTS
    ALLOC_SZ = 7
    Indents = {2}
    Spaces = {0, 1}
    MaxSpaces = 2
    JSON_INDENT = 1
    DepthMod = 4
    Names = {1}
    Values = {2, 15}
    MaxCalls = 7
SPECIFICATION Spec
INVARIANTS TypeOK BufferHolds IsJson LinesIndented
