SPECIFICATION Spec
CONSTANTS
    Procs = {p1, p2}
    Emails = {e1}
    Admins = {a1}
    KakaoIds = {k1}
    Nicknames = {n1}
    Passwords = {w1}
    MaxTokens = 2
    None = None
INVARIANTS
    OneSessionPerUser
CHECK_DEADLOCK FALSE
