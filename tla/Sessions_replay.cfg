SPECIFICATION Spec
CONSTANTS
    u1 = u1  u2 = u2  f1 = f1  f2 = f2
    t1 = t1  t2 = t2  t3 = t3  r1 = r1  r2 = r2  r3 = r3
    Users = {u1}
    Families = {f1}
    Tokens = {t1, t2}
    Reqs = {r1, r2}
    None = None
    Lockable = {}
    RefreshTtl = 1
    AccessTtl = 1
    MaxTime = 0
    OpaqueAccess = FALSE
SYMMETRY Symmetry
INVARIANTS ReplayEndsSession
