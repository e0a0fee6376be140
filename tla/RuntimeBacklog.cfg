CONSTANTS
    Channel <- MixedChannel
    Sync <- MixedSync
    Order <- MixedOrder
    Reads <- MixedReads
    Readings <- MixedReadings
    Value = {0}
    Backoff <- MCBackoff
    MaxBatch = 2
    PowerMayFail = TRUE
    StampsPerSecond = 1
    Unitless = {}
    FailureCodes = {503}
    MaxReads = 2
    MaxFaults = 2

SPECIFICATION FairSpec

PROPERTIES
    RowsLeaveDelivered
    ImplementsLife
    TickBounded
    BacklogDrains
    RingDrains
