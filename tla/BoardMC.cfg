CONSTANTS
    Procs = {p1, p2, p3}
    Users = {u1, u2}
    Posts = {x1}
    MaxComments = 3
    None = None
    Ids = {1, 2, 3}
    MaxKey = 2
    Limit = 1
    MaxChanges = 1
    Kinds <- MCKinds
SPECIFICATION BoardSpec
SYMMETRY Symmetry
INVARIANTS
    CommentCountExact
    LikeCountExact
    WalkSeesKept
    PagesAreTheList
    NeighboursAdjacent
CHECK_DEADLOCK FALSE
