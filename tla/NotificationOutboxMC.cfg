CONSTANTS
    Jobs <- Rows
    Movers <- Ids
    Workers = {cron, boot}
    BootRun = boot
    ChunkSize = 1
    MaxChunks = 2
    MaxClaims = 1
    MaxAttempts = 3
    None = None
SPECIFICATION CrowdSpec
INVARIANTS
    NobodyMissed
    AttemptsSpentIsFailed
PROPERTIES
    SettledRows
    EveryRowSettles
