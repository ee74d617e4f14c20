CONSTANTS
    Callers = {c1, c2}
    f = f
    g = g
    Files = {f, g}
    Requests <- MCRequests
    IoSize = 2
    MaxSize = 2
    MaxMeddle = 1
    NONE = NONE
    Places <- MCPlaces
    Paths <- MCPaths
    PathMax = 5
    BufSize = 2
    LongestFile = 4
    NsSec = 4
    Durations <- MCDurations
    Addresses = {"A", "B", "C"}
    MaxFound = 3
    Unset = Unset
    NULL = NULL
    Break <- MCBreak
    Degrees <- MCDegrees
    Seps <- MCSeps
    SizesOf <- MCSizesOf
    Seeds = {0, 200}
    WordBits = 8
    Multiplier = 12
    Scale = 5
    Increment = 3
    Rounds = 2
    MaxDraws = 4
    Chars <- MCChars
    Splits <- MCSplits
    Befores <- MCBefores
    Lines <- MCLines
    Spellings <- MCSpellings
    Cells <- MCCells
    FileNames <- MCFileNames
    Substrings <- MCSubstrings
    Bytestrings <- MCBytestrings
    Bases <- MCBases
    Timespecs <- MCTimespecs
    Totals <- MCTotals
    Sockaddrs <- MCSockaddrs
    Elements = {1, 2, 3, 4}
    RandMax = 4
    Rooms = {3, 8, 15, 16, 45, 46}
    NoAnswer = NoAnswer
    NsPerSec = 4
    KiloSi = 3
    Kilo = 4
    IntHalf = 4
    Grains = 4
    Angles <- MCAngles
    AddressBits = 4
    ByteBits = 2
    Bytes = 2
    HashBits = 8
    Golden = 71
    Shifts <- MCShifts
    UuidLen = 2
    Numbers <- MCNumbers
    Keys <- MCKeys
    Salts <- MCSalts
    Trees <- MCTrees
    Height <- MCHeight
SPECIFICATION HelpersSpec
INVARIANTS MkdirMakes WholeCopies CopyFailsForAReason WholeLoads SleepsAsAsked
           LookupDelivers StringsRight EscapesDecode ConversionsRight
           PrefixIsNetwork MiscRight WalksRight StreamsResume
PROPERTY AllAnswered
