CONSTANTS
    k1 = k1
    k2 = k2
    k3 = k3
    k4 = k4
    n1 = n1
    n2 = n2
    n3 = n3
    Keys = {k1, k2, k3, k4}
    Names = {n1, n2, n3}
    NameOf <- MCNameOf
    HashOf <- MCHashOf
    Datas = {d1, d2}
    HTABLE_SZ = 2
    Missing = Missing
SPECIFICATION FairSpec
INVARIANTS OnePerName OwnsItsEntries
PROPERTIES ForeachVisitsOnce ForeachEnds ImplementsDict
