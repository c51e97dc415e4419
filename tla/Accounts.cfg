SPECIFICATION Spec
CONSTANTS
    e1 = e1  p1 = p1  p2 = p2
    c1 = c1  c2 = c2  c3 = c3  c4 = c4  c5 = c5
    Emails = {e1}
    Passwords = {p1, p2}
    Calls = {c1, c2, c3, c4}
    None = None
    MaxAttempts = 2
    Lockout = 1
    MaxTime = 2
SYMMETRY Symmetry
INVARIANTS TypeOK OneAccountPerAddress BootstrapDelivers LockIsEarned LockoutIsExact
PROPERTIES BootstrapKeepsCredential
CHECK_DEADLOCK FALSE
