SPECIFICATION Spec
CONSTANTS
    e1 = e1  p1 = p1  p2 = p2  c1 = c1  c2 = c2  c3 = c3
    f1 = f1  f2 = f2  t1 = t1  t2 = t2
    Emails = {e1}
    Passwords = {p1, p2}
    Calls = {c1, c2}
    MaxAttempts = 1
    Lockout = 1
    Families = {f1}
    Tokens = {t1, t2}
    RefreshTtl = 1
    AccessTtl = 1
    OpaqueAccess = TRUE
    None = None
    MaxTime = 1
    Ops = {"login", "change"}
SYMMETRY Symmetry
INVARIANTS TypeOK SurvivorsOverlapped
CHECK_DEADLOCK FALSE
