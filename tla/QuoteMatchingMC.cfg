CONSTANTS
    Requests = {r1}
    Movers = {m1, m2}
    Handlers = {h1, h2}
    Jobs = {cron, boot}
    None = None
    MaxDesignated = 1
    MaxGeneral = 1
    Days = {0}
    MaxTime = 3
VIEW WithoutNotices
SYMMETRY Symmetry
SPECIFICATION CrowdSpec
INVARIANTS
    ConfirmedConsistent
    DesignationAgrees
    ProposalCaps
    ReviewsWithinRuns
PROPERTIES
    SettledForGood
    ContractSpec
