CONSTANTS
    low1 = low1
    low2 = low2
    normal = normal
    critical = critical
    Sample <- MCSample
    PriorityOf <- MCPriorityOf
    NoSample = NoSample
    Capacity = 3
    MaxArrivals = 7

SPECIFICATION FairSpec

INVARIANTS
    TypeOK
    ResidentsAreSamples
    EnqueueInProgress
    DropsAccounted

PROPERTIES
    ImplementsQueue
    ImportanceKept
    EnqueueBounded
    OperationReturns
