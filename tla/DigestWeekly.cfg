SPECIFICATION Spec
CONSTANTS
    SlotsPerHour = 1
    EntityDigests <- MCDailyEntities
    ProfileDigests <- MCDailyProfiles
    Considered = {"daily", "weekly"}
    CheckEvery = 1
    KeyTtl = 168
    Start <- MCMonday
    Horizon = 420
    MaxBusy = 0
    MaxCrash = 1
    MaxRaise = 0
    MaxRedisFault = 0
    MaxPause = 0
INVARIANT OnTime
