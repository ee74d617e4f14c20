CONSTANTS
    x1 = x1
    x2 = x2
    x3 = x3
    Items = {x1, x2, x3}
    KeyOf <- MCKeyOf
    Addrs = {a1, a2, a3, a4}
    NULL = NULL
    Junk = Junk
    HeapSize = 4
    MaxLen = 4
    Mixed = TRUE
    n1 = n1
    n2 = n2
    OwnNodes = {n1, n2, n3, n4, n5}
    NodeKey <- MCNodeKey
    Strings = {s1, s2, s3, s4}
    Garbage = Garbage
    MaxId = 4
SPECIFICATION ContainersSpec
PROPERTY ReverseKeepsItems
