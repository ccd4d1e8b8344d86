SPECIFICATION Spec
CONSTANTS
    SlotsPerHour = 4
    EntityDigests <- MCEntities
    ProfileDigests <- MCProfiles
    Considered = {"hourly", "every_4h"}
    CheckEvery = 1
    KeyTtl = 672
    Start <- MCStart
    Horizon = 34
    MaxBusy = 1
    MaxCrash = 1
    MaxRaise = 1
    MaxRedisFault = 1
    MaxPause = 1
INVARIANTS TypeOK OncePerPeriod OnTime
