SPECIFICATION Spec
CONSTANTS
    Procs = {p1, p2}
    m1 = m1
    m2 = m2
    comment = comment
    message = message
    Members = {m1, m2}
    Targets = {comment, message}
    Kind <- MCKind
    Author <- MCAuthor
    Parent <- MCParent
    SuspendFor = 1
    MaxTime = 1
    MaxWait = 1
    MaxHistory = 3
    None = None
SYMMETRY Symmetry
INVARIANTS
    StatusHistoryChains
    SanctionIsDecided
    OfferedIsEffective
PROPERTIES
    TermsKept
CHECK_DEADLOCK FALSE
