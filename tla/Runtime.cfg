CONSTANTS
    Channel <- FourChannel
    Sync <- FourSync
    Order <- FourOrder
    Reads <- FourReads
    Readings <- FourReadings
    Value = {0, 2}
    Backoff <- MCBackoff
    MaxBatch = 2
    PowerMayFail = FALSE
    StampsPerSecond = 1
    Unitless = {"soil"}
    FailureCodes = {503}
    MaxReads = 3
    MaxFaults = 2

SPECIFICATION Spec

INVARIANTS
    TypeOK
    NoSilentLoss
    HeldOnce
    RingHasRoom
    UrgentNotHeld
    FlagsAgree

PROPERTY
    SteadyReadingsQuiet
