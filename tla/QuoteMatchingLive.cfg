CONSTANTS
    Requests = {r1}
    Movers = {m1}
    Handlers = {h1, h2}
    Jobs = {cron}
    None = None
    MaxDesignated = 1
    MaxGeneral = 1
    Days = {0}
    MaxTime = 2

SPECIFICATION FairSpec
INVARIANTS
    NoticesOnce
PROPERTIES
    EveryCallReturns
    OverdueIsClosed
