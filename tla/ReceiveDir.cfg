SPECIFICATION MCSpec
CONSTANTS
    u1 = u1
    u2 = u2
    u3 = u3
    n1 = n1
    n2 = n2
    p1 = p1
    Names = {n1, n2}
    Uploads = {u1, u2, u3}
    Downloads = {d1}
    Size <- MCSize
    Pids = {p1, p2}
    Attempts = 2
    MaxCrashes = 1
    NoFile = NoFile
    Mtime <- MCMtime
    Rank <- MCRank
    MaxRows = 2
INVARIANTS TempIsOwn TempHasOwner ListsEverythingSteady PutReportsWholeFile
PROPERTIES ImplementsAtomicFiles
CHECK_DEADLOCK FALSE
