CONSTANTS
    Users = {customer, mover}
    Rooms = {r1, r2}
    Handlers = {h1, h2}
    Bodies <- TwoBodies
    None = None
    Procs = {h1, h2}
    Participants = {customer, mover}
    MaxMessages = 2
    MaxClock = 2
    Nobody = None
SYMMETRY Symmetry
SPECIFICATION ChatSpec
INVARIANTS
    SecondRoomAfterLeaving
    LastMessageAtIsNewest
    RejoinedSeesWhy
PROPERTIES
    CommitsReachTheRoom
    NoRoomOnClosedRequest
    ReadMarkForward
CHECK_DEADLOCK FALSE
