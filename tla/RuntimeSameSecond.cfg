CONSTANTS
    Channel <- OneChannel
    Sync <- OneSync
    Order <- OneOrder
    Reads <- OneReads
    Readings <- OneReadings
    Value = {0}
    Backoff <- MCBackoff
    MaxBatch = 2
    PowerMayFail = FALSE
    StampsPerSecond = 2
    Unitless = {}
    FailureCodes = {503}
    MaxReads = 2
    MaxFaults = 0

SPECIFICATION Spec

INVARIANTS
    AcceptedMeansPersisted
