SPECIFICATION FairSpec
CONSTANTS
    n1 = n1
    n2 = n2
    n3 = n3
    u1 = u1
    u2 = u2
    s1 = s1
    s2 = s2
    f1 = f1
    f2 = f2
    i1 = i1
    i2 = i2
    NoName = NoName
    Names = {n1}
    Users = {u1, u2}
    Starts = {s1, s2}
    Fills = {f1}
    Images = {i1, i2}
    Sizes = {0, 2}
    ClaimsPerStart = 2
    LedgerFails = TRUE
    FillsCutShort = TRUE
INVARIANTS NamedContainersStand
PROPERTIES RowsResolve
