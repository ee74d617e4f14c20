CONSTANTS
    Callers = {c1, c2}
    f = f
    g = g
    Files = {f, g}
    Requests <- MCRequests
    IoSize = 2
    MaxSize = 2
    MaxMeddle = 1
    NONE = NONE
    Places <- MCPlaces
    Paths <- MCPaths
    PathMax = 5
    BufSize = 2
    LongestFile = 4
    NsSec = 4
    Durations <- MCDurations
    Addresses = {"A", "B", "C"}
    MaxFound = 3
    Unset = Unset
SPECIFICATION SystemSpec
INVARIANT FailureReported
