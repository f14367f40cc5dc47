CONSTANTS
    Keys = {k1, k2}
    Posts = {p1, p2}
    Handlers = {h1, h2}
    MaxCalls = 2
    PageSize = 1
    Moves = {m1, m2}
    Conns = {s1, s2}
    MaxStops = 1
    ListLimit = 1
    CallsOn <- MCCallsOn
    None = None
SPECIFICATION DailySpec
SYMMETRY MCSymmetry
INVARIANTS
    ReferencedStay
    NightCleans
    RemindersWithinRuns
    EveryMoveReminded
    NothingMissed
    CountSettles
    OneReviewToldOnce
CHECK_DEADLOCK FALSE
