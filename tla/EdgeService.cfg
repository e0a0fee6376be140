SPECIFICATION FairSpec
CONSTANTS
    Documents <- MCDocuments
    ClockHz = 2
    Heartbeat = 2
    Nap = 1
CHECK_DEADLOCK FALSE
INVARIANTS
    TypeOK
    UploaderMeansConfigured
    HeldIsUsable
PROPERTIES
    ReloadNotLost
    StopHonoured
