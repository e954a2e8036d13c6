SPECIFICATION Spec
CONSTANTS
    m1 = m1
    p1 = p1
    p2 = p2
    anonymous = anonymous
    r1 = r1
    r2 = r2
    Users = {anonymous}
    Mountpoints = {m1}
    Passwords = {p1, p2}
    Anonymous = anonymous
    Entries <- SomeEntries
    Requests = {r1, r2}
    SessionLimit = 1
    TokenTTL = 1
    OpaTimeout = 2
    MaxTime = 3
    MaxTokens = 1
    ANY = ANY
    None = None
SYMMETRY RequestSymmetry
INVARIANTS
    GrantsJustified
    LimitedSessionsEnd
CHECK_DEADLOCK FALSE
