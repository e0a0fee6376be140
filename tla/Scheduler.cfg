CONSTANTS
    Rates <- MCRates
    TicksPerSecond = 4
    MaxChannels = 2
    MaxNow = 8
    MaxConfigures = 2

SPECIFICATION FairSpec

INVARIANTS
    TypeOK
    NoCatchUpStorm
    NoSlotOverskipped
    NoDrift

PROPERTIES
    DispatchReturns
