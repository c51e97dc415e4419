SPECIFICATION FairSpec
CONSTANTS
    u1 = u1  u2 = u2  f1 = f1  f2 = f2
    t1 = t1  t2 = t2  t3 = t3  r1 = r1  r2 = r2  r3 = r3
    Users = {u1}
    Families = {f1}
    Tokens = {t1, t2}
    Reqs = {r1}
    None = None
    Lockable = {u1}
    RefreshTtl = 1
    AccessTtl = 0
    MaxTime = 2
    OpaqueAccess = TRUE
INVARIANTS RowsOutliveValidity
PROPERTIES ExpiredAreSwept
