CONSTANTS
    Channel <- OneChannel
    Sync <- OneSync
    Order <- OneOrder
    Reads <- OneReads
    Readings <- OneReadings
    Value = {0}
    Backoff <- MCBackoff
    MaxBatch = 2
    PowerMayFail = FALSE
    StampsPerSecond = 1
    Unitless = {}
    FailureCodes = {503}
    MaxReads = 1
    MaxFaults = 2

SPECIFICATION Spec

PROPERTIES
    RejectedBatchDropped
