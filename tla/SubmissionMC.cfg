CONSTANTS
    Jobs = {r1}
    Movers <- OneMover
    Workers = {cron}
    BootRun = boot
    ChunkSize = 1
    MaxChunks = 1
    MaxClaims = 1
    MaxAttempts = 2
    None = None
    Handlers = {h1, h2}
    Days <- OneDay
    MaxDay = 1
SYMMETRY Symmetry
SPECIFICATION SubmissionSpec
INVARIANTS
    SubmittedIsComplete
PROPERTIES
    SubmittedIsFrozen
