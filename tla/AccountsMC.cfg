SPECIFICATION Spec
CONSTANTS
    Procs = {p1, p2}
    Emails = {e1, e2}
    Admins = {a1}
    KakaoIds = {k1, k2}
    Nicknames = {n1}
    Passwords = {w1, w2}
    MaxTokens = 3
    None = None
SYMMETRY Symmetry
INVARIANTS
    EndedOnce
    IdentityProven
PROPERTIES
    EarlierSessionsEnd
CHECK_DEADLOCK FALSE
